---- MODULE Spec2Model ----
(***************************************************************************)
(* Resilience and strategy-orchestration layer of the ai-services package: *)
(* the circuit breaker (circuit_breaker/circuit_breaker.py), the retry     *)
(* wrapper (decorators/retry_decorator.py), the Fallback and Hybrid        *)
(* composers (factories/strategy_factory.py), the cache wrapper            *)
(* (decorators/cache_decorator.py over core/cache.py), the decorator stack *)
(* of services/symptom_analysis_service.py, the OpenAI breaker             *)
(* (circuit_breaker/openai_circuit_breaker.py) and the breaker registry    *)
(* (CircuitBreakerManager).  Each component has its own specification; the *)
(* variables of the components a specification does not use stay put.      *)
(*                                                                         *)
(* Scheduling is asyncio's: one thread, tasks interleave only where a      *)
(* coroutine awaits something that suspends.  The breaker's asyncio.Lock   *)
(* is only ever held across code without an await, so an `async with       *)
(* self._lock` block never waits and runs as one atomic step.  Floats are  *)
(* modelled by exact integers (times in whole ticks, weights in tenths).   *)
(***************************************************************************)
EXTENDS Integers, Sequences, FiniteSets, TLC

VARIABLES
    cb,                 \* the CircuitBreaker object: configuration and state fields
    now,                \* time.time(), in ticks
    pc,                 \* per caller: "idle", or "running" inside the wrapped function
    result,             \* per caller: how its last CircuitBreaker.call ended
    admit,              \* per caller: breaker state under which its call was admitted
    calls,              \* number of CircuitBreaker.call entered so far
    invocations,        \* number of times the wrapped function was invoked
    consec_failures,    \* counted failures recorded in CLOSED since the last success
    consec_successes,   \* successes recorded since the breaker last became HALF_OPEN
    rt,                 \* one RetryDecorator call: configuration, script, progress
    fb,                 \* one FallbackStrategy call
    hy,                 \* one HybridStrategy call
    ch,                 \* the cache wrapper: Redis store and the call in progress
    oa,                 \* an OpenAICircuitBreaker and the call_openai in progress
    mgr,                \* the CircuitBreakerManager: its registry and last lookup
    ac,                 \* the shared AnalysisContext and the requests using it
    ly                  \* a metrics, logging or audit wrapper and the call through it

cbVars == <<cb, now, pc, result, admit, calls, invocations,
            consec_failures, consec_successes>>
vars == <<cb, now, pc, result, admit, calls, invocations,
          consec_failures, consec_successes, rt, fb, hy, ch, oa, mgr, ac, ly>>

(***************************************************************************)
(* Bounds of the model.                                                    *)
(***************************************************************************)
NumCallers == 2
MaxCalls == 4
MaxTime == 3
MaxThreshold == 3
MaxSuccessThreshold == 2
MaxTimeout == 2
MaxAttempts == 3
MaxScript == 3
MaxCacheCalls == 2
NumCacheCallers == 2
NumArguments == 2

Callers == 1..NumCallers

(***************************************************************************)
(* circuit_breaker/circuit_breaker.py                                      *)
(***************************************************************************)
NoTime == -1            \* last_failure_time = None

CLOSED == "closed"
OPEN == "open"
HALF_OPEN == "half_open"

Free == 0               \* self._lock is not held

\* CircuitBreaker.__init__; lock is the caller holding self._lock, or Free
NewBreaker(ft, rto, st) ==
    [failure_threshold |-> ft, recovery_timeout |-> rto, success_threshold |-> st,
     failure_count |-> 0, success_count |-> 0, last_failure_time |-> NoTime,
     state |-> CLOSED, lock |-> Free]

\* CircuitBreaker._should_attempt_reset
should_attempt_reset(b, t) ==
    IF b.last_failure_time = NoTime
    THEN TRUE
    ELSE t - b.last_failure_time >= b.recovery_timeout

\* CircuitBreaker._reset
reset(b) ==
    [b EXCEPT !.failure_count = 0, !.success_count = 0,
              !.last_failure_time = NoTime, !.state = CLOSED]

on_success_first(b) ==
    IF b.state = HALF_OPEN
    THEN reset([b EXCEPT !.success_count = b.success_count + 1])
    ELSE [b EXCEPT !.failure_count = 0]

\* CircuitBreaker._on_success
on_success(b) ==
    IF b.state = HALF_OPEN
    THEN LET b1 == [b EXCEPT !.success_count = b.success_count + 1]
         IN  IF b1.success_count >= b1.success_threshold THEN reset(b1) ELSE b1
    ELSE [b EXCEPT !.failure_count = 0]

on_failure_strict(b, t) ==
    LET b1 == [b EXCEPT !.failure_count = b.failure_count + 1,
                        !.last_failure_time = t]
    IN  IF b1.state = HALF_OPEN
        THEN [b1 EXCEPT !.state = OPEN, !.success_count = 0]
        ELSE IF b1.failure_count > b1.failure_threshold
             THEN [b1 EXCEPT !.state = OPEN]
             ELSE b1

on_failure_keep_half_open(b, t) ==
    LET b1 == [b EXCEPT !.failure_count = b.failure_count + 1,
                        !.last_failure_time = t]
    IN  IF b1.failure_count >= b1.failure_threshold /\ b1.state # HALF_OPEN
        THEN [b1 EXCEPT !.state = OPEN]
        ELSE b1

on_failure_keeps_success_count(b, t) ==
    LET b1 == [b EXCEPT !.failure_count = b.failure_count + 1,
                        !.last_failure_time = t]
    IN  IF b1.state = HALF_OPEN
        THEN [b1 EXCEPT !.state = OPEN]
        ELSE IF b1.failure_count >= b1.failure_threshold
             THEN [b1 EXCEPT !.state = OPEN]
             ELSE b1

on_failure_stays_closed(b, t) ==
    LET b1 == [b EXCEPT !.failure_count = b.failure_count + 1,
                        !.last_failure_time = t]
    IN  IF b1.state = HALF_OPEN
        THEN [b1 EXCEPT !.state = OPEN, !.success_count = 0]
        ELSE b1

\* CircuitBreaker._on_failure
on_failure(b, t) ==
    LET b1 == [b EXCEPT !.failure_count = b.failure_count + 1,
                        !.last_failure_time = t]
    IN  IF b1.state = HALF_OPEN
        THEN [b1 EXCEPT !.state = OPEN, !.success_count = 0]
        ELSE IF b1.failure_count >= b1.failure_threshold
             THEN [b1 EXCEPT !.state = OPEN]
             ELSE b1

admission_ignores_timeout(b, t) ==
    IF b.state = OPEN
    THEN [breaker |-> [b EXCEPT !.state = HALF_OPEN], admitted |-> TRUE]
    ELSE [breaker |-> b, admitted |-> TRUE]

admission_stays_open(b, t) ==
    IF b.state = OPEN
    THEN [breaker |-> b, admitted |-> should_attempt_reset(b, t)]
    ELSE [breaker |-> b, admitted |-> TRUE]

admission_counts_rejection(b, t) ==
    IF b.state = OPEN
    THEN IF should_attempt_reset(b, t)
         THEN [breaker |-> [b EXCEPT !.state = HALF_OPEN], admitted |-> TRUE]
         ELSE [breaker |-> [b EXCEPT !.failure_count = b.failure_count + 1,
                                     !.last_failure_time = t],
               admitted |-> FALSE]
    ELSE [breaker |-> b, admitted |-> TRUE]

\* CircuitBreaker.call, the block under the lock: the admission check
admission(b, t) ==
    IF b.state = OPEN
    THEN IF should_attempt_reset(b, t)
         THEN [breaker |-> [b EXCEPT !.state = HALF_OPEN], admitted |-> TRUE]
         ELSE [breaker |-> b, admitted |-> FALSE]
    ELSE [breaker |-> b, admitted |-> TRUE]

lock_held_during_call(c) == c

\* CircuitBreaker.call: the holder of self._lock when the `async with` block of
\* the admission check has ended and the wrapped function is awaited
lock_during_call(c) == Free

Outcomes == {"ok", "expected", "unexpected"}

record_outcome_counts_all(b, outcome, t) ==
    CASE outcome = "ok" -> on_success(b)
      [] OTHER -> on_failure(b, t)

\* CircuitBreaker.call, the try block after the wrapped function completes
record_outcome(b, outcome, t) ==
    CASE outcome = "ok" -> on_success(b)
      [] outcome = "expected" -> on_failure(b, t)
      [] OTHER -> b

ResultOf(outcome) ==
    CASE outcome = "ok" -> "value"
      [] outcome = "expected" -> "error"
      [] OTHER -> "unexpected"

\* CircuitBreaker.call up to the first suspension: self._lock is acquired (the
\* caller waits while it is held), the admission check runs and the lock is
\* released; when admitted, the wrapped function starts
CallBegin(c) ==
    /\ pc[c] = "idle"
    /\ calls < MaxCalls
    /\ cb.lock = Free
    /\ LET a == admission(cb, now)
       IN  /\ cb' = [a.breaker EXCEPT !.lock = IF a.admitted
                                               THEN lock_during_call(c)
                                               ELSE Free]
           /\ calls' = calls + 1
           /\ IF a.admitted
              THEN /\ pc' = [pc EXCEPT ![c] = "running"]
                   /\ result' = [result EXCEPT ![c] = "pending"]
                   /\ admit' = [admit EXCEPT ![c] = a.breaker.state]
                   /\ invocations' = invocations + 1
              ELSE /\ result' = [result EXCEPT ![c] = "rejected"]
                   /\ UNCHANGED <<pc, admit, invocations>>
           /\ consec_successes' =
                 IF cb.state = OPEN /\ a.breaker.state = HALF_OPEN
                 THEN 0 ELSE consec_successes
    /\ UNCHANGED <<now, consec_failures, rt, fb, hy, ch, oa, mgr, ac, ly>>

\* CircuitBreaker.call from the completion of the wrapped function to the return
\* or raise: _on_success / _on_failure acquire self._lock (asyncio.Lock is not
\* reentrant: they wait while anyone holds it), run without a suspension in
\* between and release it
CallReturn(c, outcome) ==
    /\ pc[c] = "running"
    /\ outcome \in {"ok", "expected"} => cb.lock = Free
    /\ cb' = record_outcome(cb, outcome, now)
    /\ pc' = [pc EXCEPT ![c] = "idle"]
    /\ result' = [result EXCEPT ![c] = ResultOf(outcome)]
    /\ admit' = [admit EXCEPT ![c] = "none"]
    /\ consec_failures' =
          IF outcome = "expected" /\ cb.state = CLOSED THEN consec_failures + 1
          ELSE IF outcome = "ok" THEN 0
          ELSE consec_failures
    /\ consec_successes' =
          IF outcome = "ok" /\ cb.state = HALF_OPEN THEN consec_successes + 1
          ELSE consec_successes
    /\ UNCHANGED <<now, calls, invocations, rt, fb, hy, ch, oa, mgr, ac, ly>>

\* time.time() advances
Tick ==
    /\ now < MaxTime
    /\ now' = now + 1
    /\ UNCHANGED <<cb, pc, result, admit, calls, invocations,
                   consec_failures, consec_successes, rt, fb, hy, ch, oa, mgr, ac, ly>>

Idle == [status |-> "unused"]

BreakerInit ==
    /\ cb \in {NewBreaker(ft, rto, st) :
                 ft \in 1..MaxThreshold, rto \in 1..MaxTimeout,
                 st \in 1..MaxSuccessThreshold}
    /\ now = 0
    /\ pc = [c \in Callers |-> "idle"]
    /\ result = [c \in Callers |-> "none"]
    /\ admit = [c \in Callers |-> "none"]
    /\ calls = 0
    /\ invocations = 0
    /\ consec_failures = 0
    /\ consec_successes = 0

Init ==
    /\ BreakerInit
    /\ rt = Idle
    /\ fb = Idle
    /\ hy = Idle
    /\ ch = Idle
    /\ oa = Idle
    /\ mgr = Idle
    /\ ac = Idle
    /\ ly = Idle

Next ==
    \/ \E c \in Callers : CallBegin(c)
    \/ \E c \in Callers : \E o \in Outcomes : CallReturn(c, o)
    \/ Tick

Spec == Init /\ [][Next]_vars

(***************************************************************************)
(* Properties of the circuit breaker.                                      *)
(***************************************************************************)
Elapsed(b, t) == b.last_failure_time # NoTime
                 /\ t - b.last_failure_time >= b.recovery_timeout
NotElapsed(b, t) == b.last_failure_time # NoTime
                    /\ t - b.last_failure_time < b.recovery_timeout

\* caller c's wrapped function completes in this step with a counted error
FailureRecorded(c) == pc[c] = "running" /\ pc'[c] = "idle" /\ result'[c] = "error"

\* C1: in CLOSED with failure_threshold = N, the N-th consecutive counted failure
\* leaves the breaker OPEN and every earlier one leaves it CLOSED.
C1_OpensAtThreshold ==
    [][(cb.state = CLOSED /\ consec_failures' = consec_failures + 1)
        => /\ consec_failures' <= cb.failure_threshold
           /\ (consec_failures' = cb.failure_threshold => cb'.state = OPEN)
           /\ (consec_failures' < cb.failure_threshold => cb'.state = CLOSED)]_vars

C1_Witness ==
    /\ cb.failure_threshold = 3
    /\ consec_failures = 3
    /\ cb.state = OPEN

\* C2: a call made while the breaker is OPEN and less than recovery_timeout after
\* last_failure_time is rejected with the circuit-open error, and the wrapped
\* function is not invoked.
C2_OpenRejects ==
    [][(calls' = calls + 1 /\ cb.state = OPEN /\ NotElapsed(cb, now))
        => /\ invocations' = invocations
           /\ pc' = pc
           /\ \E c \in Callers :
                 pc[c] = "idle" /\ result' = [result EXCEPT ![c] = "rejected"]]_vars

C2_Witness ==
    /\ cb.state = OPEN
    /\ NotElapsed(cb, now)
    /\ \E c \in Callers : result[c] = "rejected"
    /\ invocations < calls

\* C3: a call made while OPEN with recovery_timeout elapsed moves the breaker to
\* HALF_OPEN and invokes the wrapped function; the breaker then leaves HALF_OPEN
\* for CLOSED exactly when success_threshold successes have been recorded, with
\* both counters 0.
C3_ProbeThenClose ==
    [][/\ (calls' = calls + 1 /\ cb.state = OPEN /\ Elapsed(cb, now))
           => (cb'.state = HALF_OPEN /\ invocations' = invocations + 1)
       /\ (cb.state = HALF_OPEN /\ consec_successes' = consec_successes + 1)
           => IF consec_successes' >= cb.success_threshold
              THEN /\ cb'.state = CLOSED
                   /\ cb'.failure_count = 0
                   /\ cb'.success_count = 0
              ELSE cb'.state = HALF_OPEN
       /\ (cb.state = HALF_OPEN /\ cb'.state = CLOSED)
           => consec_successes' = cb.success_threshold]_vars

C3_Witness ==
    /\ cb.success_threshold = 2
    /\ consec_successes = 2
    /\ cb.state = CLOSED
    /\ cb.failure_count = 0
    /\ cb.success_count = 0

\* C4: a counted failure recorded while HALF_OPEN sets the state to OPEN,
\* success_count to 0 and last_failure_time to the current time.
C4_HalfOpenFailureReopens ==
    [][\A c \in Callers :
          (FailureRecorded(c) /\ cb.state = HALF_OPEN)
            => /\ cb'.state = OPEN
               /\ cb'.success_count = 0
               /\ cb'.last_failure_time = now]_vars

\* a failure was recorded in HALF_OPEN after one success of the two required
C4_Witness ==
    /\ cb.success_threshold = 2
    /\ consec_successes = 1
    /\ cb.state = OPEN
    /\ cb.success_count = 0
    /\ cb.last_failure_time = now
    /\ \E c \in Callers : result[c] = "error"

\* C5: at most one call admitted under HALF_OPEN (the probe) is inside the
\* wrapped function at any time.
C5_SingleProbe ==
    Cardinality({c \in Callers : pc[c] = "running" /\ admit[c] = HALF_OPEN}) <= 1

\* caller c's call is rejected in this step
Rejected(c) == pc[c] = "idle" /\ calls' = calls + 1 /\ result'[c] = "rejected"
               /\ invocations' = invocations

\* C14: a call rejected because the breaker is OPEN does not count as a failure:
\* failure_count, success_count, last_failure_time and state are the same
\* after the rejection as before it.
C14_RejectionChangesNothing ==
    [][\A c \in Callers :
          Rejected(c)
            => /\ cb.state = OPEN
               /\ cb'.failure_count = cb.failure_count
               /\ cb'.success_count = cb.success_count
               /\ cb'.last_failure_time = cb.last_failure_time
               /\ cb'.state = cb.state]_vars

\* two calls were rejected after the breaker opened at its second failure
C14_Witness ==
    /\ \A c \in Callers : result[c] = "rejected"
    /\ calls = invocations + 2
    /\ cb.state = OPEN
    /\ cb.failure_threshold = 2
    /\ cb.failure_count = 2
    /\ cb.last_failure_time # NoTime

\* C16: immediately after every transition of the breaker into OPEN and every
\* transition into CLOSED, failure_count = 0 and success_count = 0.
C16_CountersResetOnEntry ==
    [][(\/ cb.state # OPEN /\ cb'.state = OPEN
        \/ cb.state # CLOSED /\ cb'.state = CLOSED)
        => /\ cb'.failure_count = 0
           /\ cb'.success_count = 0]_vars

\* caller c's wrapped function raises an error outside expected_exception in
\* this step
UnexpectedRaised(c) ==
    pc[c] = "running" /\ pc'[c] = "idle" /\ result'[c] = "unexpected"

\* C19: when the wrapped function raises an error that is not an instance of
\* expected_exception, the error propagates to the caller and failure_count,
\* success_count, last_failure_time and state are unchanged.
C19_UnexpectedErrorChangesNothing ==
    [][\A c \in Callers :
          UnexpectedRaised(c)
            => /\ cb'.failure_count = cb.failure_count
               /\ cb'.success_count = cb.success_count
               /\ cb'.last_failure_time = cb.last_failure_time
               /\ cb'.state = cb.state]_vars

\* a probe raised an unexpected error after one failure: still HALF_OPEN
C19_Witness ==
    /\ \E c \in Callers : result[c] = "unexpected"
    /\ cb.state = HALF_OPEN
    /\ cb.failure_count = 1
    /\ cb.success_count = 0
    /\ \A c \in Callers : pc[c] = "idle"

(***************************************************************************)
(* decorators/retry_decorator.py: RetryDecorator                           *)
(*                                                                         *)
(* The wrapped operation follows a script: its k-th invocation raises an   *)
(* error of the scripted kind ("retryable": an instance of                 *)
(* self.exceptions, "fatal": any other error) while k <= Len(script), and  *)
(* returns a value afterwards.  Errors and values carry the number of the  *)
(* invocation that produced them.  Delays are in milliseconds.             *)
(*                                                                         *)
(* ConditionalRetry (same file) is the same loop with a constant delay and *)
(* a should_retry predicate: an error of kind "declined" is an instance of *)
(* self.exceptions for which should_retry is false.  RetryDecorator has no *)
(* predicate and retries it like any instance of self.exceptions.          *)
(***************************************************************************)
Delays == {100, 500}
Multipliers == {2}
MaxDelays == {300, 1000}
JitterPercents == {10, 20, 30}      \* random.uniform(0.1, 0.3)
NoException == 0                    \* last_exception = None

Min(a, b) == IF a <= b THEN a ELSE b

ErrorKinds == {"retryable", "declined", "fatal"}
Scripts == UNION {[1..n -> ErrorKinds] : n \in 0..MaxScript}

\* RetryDecorator.__init__ and the locals of _retry_execution before the loop
NewRetry(m, d, bm, md, j, script) ==
    [conditional |-> FALSE,
     max_attempts |-> m, delay |-> d, backoff_multiplier |-> bm, max_delay |-> md,
     jitter |-> j, script |-> script,
     status |-> "ready", attempt |-> 0, invocations |-> 0,
     current_delay |-> d, last_exception |-> NoException,
     slept |-> << >>, outcome |-> [kind |-> "none", of |-> 0]]

\* ConditionalRetry.__init__ and the locals of _conditional_retry: every sleep is
\* asyncio.sleep(self.delay), without backoff, cap or jitter
NewConditionalRetry(m, d, script) ==
    [NewRetry(m, d, 1, d, FALSE, script) EXCEPT !.conditional = TRUE]

\* the wrapped function is entered
invoke(r) == [r EXCEPT !.invocations = r.invocations + 1, !.status = "calling"]

\* what the invocation in progress does when it completes
InvocationOutcome(r) ==
    IF r.invocations <= Len(r.script) THEN r.script[r.invocations] ELSE "ok"

\* _wait_before_retry: the delay slept, jitter included (p percent)
actual_delay(r, p) ==
    IF r.jitter THEN r.current_delay + (r.current_delay * p) \div 100
    ELSE r.current_delay

\* _retry_execution: `except self.exceptions` for a retryable error
on_retryable_one_short(r, p) ==
    LET r1 == [r EXCEPT !.last_exception = r.invocations]
    IN  IF r1.attempt + 1 >= r1.max_attempts
        THEN [r1 EXCEPT !.status = "raised",
                        !.outcome = [kind |-> "error", of |-> r1.last_exception]]
        ELSE [r1 EXCEPT !.status = "sleeping",
                        !.slept = Append(r1.slept,
                                     [pre |-> r1.current_delay,
                                      actual |-> actual_delay(r1, p)])]

on_retryable(r, p) ==
    LET r1 == [r EXCEPT !.last_exception = r.invocations]
    IN  IF r1.attempt = r1.max_attempts
        THEN [r1 EXCEPT !.status = "raised",
                        !.outcome = [kind |-> "error", of |-> r1.last_exception]]
        ELSE [r1 EXCEPT !.status = "sleeping",
                        !.slept = Append(r1.slept,
                                     [pre |-> r1.current_delay,
                                      actual |-> actual_delay(r1, p)])]

\* the error is caught by `except self.exceptions` and, in ConditionalRetry,
\* should_retry(e) holds
is_retried(r, kind) ==
    \/ kind = "retryable"
    \/ kind = "declined" /\ ~r.conditional

after_invocation_retries_all(r, p) ==
    CASE InvocationOutcome(r) = "ok" ->
            [r EXCEPT !.status = "returned",
                      !.outcome = [kind |-> "value", of |-> r.invocations]]
      [] OTHER -> on_retryable(r, p)

\* _retry_execution / _conditional_retry: the body of the loop after the wrapped
\* function completes
after_invocation(r, p) ==
    CASE InvocationOutcome(r) = "ok" ->
            [r EXCEPT !.status = "returned",
                      !.outcome = [kind |-> "value", of |-> r.invocations]]
      [] is_retried(r, InvocationOutcome(r)) -> on_retryable(r, p)
      \* _conditional_retry: `except self.exceptions` assigns last_exception
      \* before should_retry declines the error and `raise e`
      [] InvocationOutcome(r) = "declined" ->
            [r EXCEPT !.last_exception = r.invocations,
                      !.status = "raised",
                      !.outcome = [kind |-> "error", of |-> r.invocations]]
      \* an error outside self.exceptions is not caught: the locals are untouched
      [] OTHER ->
            [r EXCEPT !.status = "raised",
                      !.outcome = [kind |-> "error", of |-> r.invocations]]

\* _retry_execution: after the sleep, the next delay and the next iteration
next_attempt(r) ==
    invoke([r EXCEPT !.current_delay =
                         Min(r.current_delay * r.backoff_multiplier, r.max_delay),
                     !.attempt = r.attempt + 1])

\* _retry_execution from its entry to the first invocation; with no attempt to
\* make, `raise last_exception` raises None, which is a TypeError
RetryStart ==
    /\ rt.status = "ready"
    /\ rt' = IF rt.max_attempts >= 1
             THEN invoke([rt EXCEPT !.attempt = 1])
             ELSE [rt EXCEPT !.status = "raised",
                             !.outcome = [kind |-> "TypeError", of |-> 0]]
    /\ UNCHANGED <<cbVars, fb, hy, ch, oa, mgr, ac, ly>>

RetryFuncDone ==
    /\ rt.status = "calling"
    /\ \E p \in JitterPercents : rt' = after_invocation(rt, p)
    /\ UNCHANGED <<cbVars, fb, hy, ch, oa, mgr, ac, ly>>

RetryWake ==
    /\ rt.status = "sleeping"
    /\ rt' = next_attempt(rt)
    /\ UNCHANGED <<cbVars, fb, hy, ch, oa, mgr, ac, ly>>

RetryInit ==
    rt \in {NewRetry(m, d, bm, md, j, script) :
               m \in 0..MaxAttempts, d \in Delays, bm \in Multipliers,
               md \in MaxDelays, j \in BOOLEAN, script \in Scripts}
           \cup {NewConditionalRetry(m, d, script) :
                    m \in 0..MaxAttempts, d \in Delays, script \in Scripts}

BreakerUnused ==
    /\ cb = NewBreaker(1, 1, 1)
    /\ now = 0
    /\ pc = [c \in Callers |-> "idle"]
    /\ result = [c \in Callers |-> "none"]
    /\ admit = [c \in Callers |-> "none"]
    /\ calls = 0
    /\ invocations = 0
    /\ consec_failures = 0
    /\ consec_successes = 0

InitRetry ==
    /\ BreakerUnused
    /\ RetryInit
    /\ fb = Idle
    /\ hy = Idle
    /\ ch = Idle
    /\ oa = Idle
    /\ mgr = Idle
    /\ ac = Idle
    /\ ly = Idle

NextRetry ==
    \/ RetryStart
    \/ RetryFuncDone
    \/ RetryWake

SpecRetry == InitRetry /\ [][NextRetry]_vars

(***************************************************************************)
(* Properties of the retry wrapper.                                        *)
(***************************************************************************)
RetryDone == rt.status \in {"returned", "raised"}
AllRetryable(r) == \A k \in 1..Len(r.script) : r.script[k] = "retryable"

\* C6: an operation that raises a retryable error on its first f invocations and
\* then succeeds is, with max_attempts = m, invoked f+1 times and its value
\* returned when f < m, and invoked m times and the error of the m-th invocation
\* raised when f >= m (with m = 0 there is no attempt whose error could be raised:
\* the wrapper raises without invoking the operation).
C6_RetryAttemptCount ==
    (RetryDone /\ AllRetryable(rt))
      => LET f == Len(rt.script)
             m == rt.max_attempts
         IN  IF f < m
             THEN /\ rt.status = "returned"
                  /\ rt.invocations = f + 1
                  /\ rt.outcome = [kind |-> "value", of |-> f + 1]
             ELSE /\ rt.status = "raised"
                  /\ rt.invocations = m
                  /\ (m >= 1 => rt.outcome = [kind |-> "error", of |-> m])

C6_Witness ==
    /\ AllRetryable(rt)
    /\ Len(rt.script) = 2
    /\ rt.max_attempts = 3
    /\ rt.status = "returned"
    /\ rt.invocations = 3

\* the error that ended the call was not in the wrapper's retryable set
PropagatedNonRetryable(r) ==
    /\ r.status = "raised"
    /\ r.invocations >= 1
    /\ r.invocations <= Len(r.script)
    /\ ~is_retried(r, r.script[r.invocations])

\* C11: an error outside the retryable set raised on attempt k propagates at
\* once: the operation has been invoked k times in total (once per attempt), the
\* only delays waited are the k-1 before it, and the caller receives that error.
C11_NonRetryablePropagates ==
    PropagatedNonRetryable(rt)
      => /\ rt.invocations = rt.attempt
         /\ Len(rt.slept) = rt.attempt - 1
         /\ rt.outcome = [kind |-> "error", of |-> rt.attempt]
         /\ \A k \in 1..(rt.attempt - 1) : is_retried(rt, rt.script[k])

\* a non-retryable error on the second of three attempts
C11_Witness ==
    /\ PropagatedNonRetryable(rt)
    /\ rt.max_attempts = 3
    /\ rt.attempt = 2
    /\ rt.script[2] = "fatal"
    /\ Len(rt.slept) = 1

RECURSIVE Pow(_, _)
Pow(b, e) == IF e = 0 THEN 1 ELSE b * Pow(b, e - 1)

\* C15: for every k >= 1 the pre-jitter delay waited before attempt k+1 is
\* min(delay x backoff_multiplier^(k-1), max_delay), so that no pre-jitter delay
\* exceeds max_delay; with delay 100, multiplier 2 and max_delay 1000 the delay
\* before attempt 3 is 200.
C15_BackoffDelays ==
    ~rt.conditional
      => \A k \in 1..Len(rt.slept) :
            /\ rt.slept[k].pre =
                  Min(rt.delay * Pow(rt.backoff_multiplier, k - 1), rt.max_delay)
            /\ rt.slept[k].pre <= rt.max_delay
            /\ (rt.delay = 100 /\ rt.backoff_multiplier = 2
                /\ rt.max_delay = 1000 /\ k = 2)
                  => rt.slept[k].pre = 200

(***************************************************************************)
(* factories/strategy_factory.py: the base strategies as the composers see *)
(* them (name, confidence prior, whether their constructor succeeds).      *)
(* Confidences and weights are in tenths.                                  *)
(***************************************************************************)
OPENAI == "openai"
LOCAL_MODEL == "local_model"
RULE_BASED == "rule_based"
StrategyNames == {OPENAI, LOCAL_MODEL, RULE_BASED}

\* strategy_order of FallbackStrategy.__init__
strategy_order == <<OPENAI, LOCAL_MODEL, RULE_BASED>>

\* get_confidence_score of the three base strategies; the local model reports
\* 0.8 with its model loaded and 0.3 without
get_confidence_score(name, loaded) ==
    CASE name = OPENAI -> 9
      [] name = LOCAL_MODEL -> IF loaded THEN 8 ELSE 3
      [] OTHER -> 7

Operations == {"analyze_symptoms", "process_medical_text"}

RECURSIVE created(_, _, _)
\* the loop of FallbackStrategy.__init__: creators that raise are skipped
created(order, available, loaded) ==
    IF order = << >> THEN << >>
    ELSE LET rest == created(Tail(order), available, loaded)
         IN  IF Head(order) \in available
             THEN <<[name |-> Head(order),
                     confidence |-> get_confidence_score(Head(order), loaded)]>>
                  \o rest
             ELSE rest

\* FallbackStrategy.__init__ and the locals of one call
NewFallback(available, loaded, op) ==
    [strategies |-> created(strategy_order, available, loaded), op |-> op,
     status |-> "ready", idx |-> 0, invoked |-> << >>, errors |-> << >>,
     last_error |-> "none", outcome |-> [kind |-> "none"]]

annotate_plain(s) ==
    [kind |-> "value", producer |-> s.name,
     strategy_used |-> s.name,
     strategy_confidence |-> s.confidence]

\* FallbackStrategy.analyze_symptoms / process_medical_text: the annotation of a
\* successful result
annotate(s) ==
    [kind |-> "value", producer |-> s.name,
     strategy_used |-> "fallback_" \o s.name,
     strategy_confidence |-> s.confidence]

\* the next candidate is invoked, or the loop is over and the aggregate error raised
try_candidate(f, i) ==
    IF i <= Len(f.strategies)
    THEN [f EXCEPT !.idx = i, !.status = "calling",
                   !.invoked = Append(f.invoked, f.strategies[i].name)]
    ELSE [f EXCEPT !.status = "raised",
                   !.outcome = [kind |-> "all_failed", last_error |-> f.last_error]]

candidate_done_keeps_first(f, ok) ==
    IF ok
    THEN [f EXCEPT !.status = "returned", !.outcome = annotate(f.strategies[f.idx])]
    ELSE try_candidate([f EXCEPT !.last_error =
                                    IF f.last_error = "none"
                                    THEN f.strategies[f.idx].name
                                    ELSE f.last_error,
                                 !.errors = Append(f.errors, f.strategies[f.idx].name)],
                       f.idx + 1)

\* the body of the loop once the candidate's call has completed
candidate_done(f, ok) ==
    IF ok
    THEN [f EXCEPT !.status = "returned", !.outcome = annotate(f.strategies[f.idx])]
    ELSE try_candidate([f EXCEPT !.last_error = f.strategies[f.idx].name,
                                 !.errors = Append(f.errors, f.strategies[f.idx].name)],
                       f.idx + 1)

FallbackStart ==
    /\ fb.status = "ready"
    /\ fb' = try_candidate(fb, 1)
    /\ UNCHANGED <<cbVars, rt, hy, ch, oa, mgr, ac, ly>>

FallbackCandidateDone ==
    /\ fb.status = "calling"
    /\ \E ok \in BOOLEAN : fb' = candidate_done(fb, ok)
    /\ UNCHANGED <<cbVars, rt, hy, ch, oa, mgr, ac, ly>>

FallbackInit ==
    fb \in {NewFallback(available, loaded, op) :
               available \in SUBSET StrategyNames, loaded \in BOOLEAN,
               op \in Operations}

InitFallback ==
    /\ BreakerUnused
    /\ rt = Idle
    /\ FallbackInit
    /\ hy = Idle
    /\ ch = Idle
    /\ oa = Idle
    /\ mgr = Idle
    /\ ac = Idle
    /\ ly = Idle

NextFallback ==
    \/ FallbackStart
    \/ FallbackCandidateDone

SpecFallback == InitFallback /\ [][NextFallback]_vars

(***************************************************************************)
(* Properties of the Fallback composer.                                    *)
(***************************************************************************)
Rank(name) == CHOOSE i \in 1..Len(strategy_order) : strategy_order[i] = name

\* C7: Fallback returns the result of the first candidate in priority order
\* (remote LLM, local model, rule engine) whose call succeeds, annotated with
\* strategy_used = "fallback_<name>" and that candidate's confidence; every
\* candidate before it was invoked once and failed, none after it is invoked.
C7_FallbackFirstSuccess ==
    fb.status = "returned"
      => LET n == Len(fb.invoked)
             winner == fb.strategies[n]
         IN  /\ n >= 1
             /\ fb.invoked = [i \in 1..n |-> fb.strategies[i].name]
             /\ fb.errors = [i \in 1..(n - 1) |-> fb.strategies[i].name]
             /\ \A i, j \in 1..Len(fb.strategies) :
                   i < j => Rank(fb.strategies[i].name) < Rank(fb.strategies[j].name)
             /\ fb.outcome.producer = winner.name
             /\ fb.outcome.strategy_used = "fallback_" \o winner.name
             /\ fb.outcome.strategy_confidence = winner.confidence

C7_Witness ==
    /\ fb.status = "returned"
    /\ Len(fb.strategies) = 3
    /\ fb.errors = <<OPENAI>>
    /\ fb.outcome.strategy_used = "fallback_local_model"

\* C12: when every candidate of a Fallback chain fails the call raises the
\* aggregate error and returns no value, each candidate was invoked exactly once
\* in priority order, and the aggregate error carries the error of the last
\* candidate tried.
C12_FallbackAllFail ==
    /\ (fb.status # "ready" /\ Len(fb.errors) = Len(fb.strategies))
          => LET n == Len(fb.strategies)
             IN  /\ fb.status = "raised"
                 /\ fb.outcome.kind = "all_failed"
                 /\ fb.invoked = [i \in 1..n |-> fb.strategies[i].name]
                 /\ fb.errors = fb.invoked
                 /\ \A i, j \in 1..n :
                       i < j => Rank(fb.invoked[i]) < Rank(fb.invoked[j])
                 /\ (n >= 1 => fb.outcome.last_error = fb.strategies[n].name)
    /\ fb.status = "raised" => Len(fb.errors) = Len(fb.strategies)

C12_Witness ==
    /\ fb.status = "raised"
    /\ Len(fb.strategies) = 3
    /\ fb.errors = <<OPENAI, LOCAL_MODEL, RULE_BASED>>
    /\ fb.outcome.last_error = RULE_BASED

(***************************************************************************)
(* Python float arithmetic (IEEE 754 binary64, round to nearest, ties to   *)
(* even), as HybridStrategy uses it.  A natural number of any size is the  *)
(* sequence of its digits in base 2^14, least significant first, without a *)
(* leading zero digit.  A float is m * 2^e with m = 0 (and e = 0) or a     *)
(* mantissa m of exactly 53 bits, so that equal numbers are equal records. *)
(* All numbers here are finite, not negative and far from the limits of    *)
(* the exponent.                                                           *)
(***************************************************************************)
Base == 2^14
Precision == 53

RECURSIVE SumOver(_, _)
SumOver(f, S) ==
    IF S = {} THEN 0
    ELSE LET i == CHOOSE j \in S : TRUE IN f[i] + SumOver(f, S \ {i})

RECURSIVE BigNorm(_)
BigNorm(a) ==
    IF a # << >> /\ a[Len(a)] = 0 THEN BigNorm(SubSeq(a, 1, Len(a) - 1)) ELSE a

RECURSIVE BigFromInt(_)
BigFromInt(n) == IF n = 0 THEN << >> ELSE <<n % Base>> \o BigFromInt(n \div Base)

Digit(a, i) == IF i <= Len(a) THEN a[i] ELSE 0

RECURSIVE BigAddFrom(_, _, _, _)
BigAddFrom(a, b, i, carry) ==
    IF i > Len(a) /\ i > Len(b)
    THEN IF carry = 0 THEN << >> ELSE <<carry>>
    ELSE LET d == Digit(a, i) + Digit(b, i) + carry
         IN  <<d % Base>> \o BigAddFrom(a, b, i + 1, d \div Base)

BigAdd(a, b) == BigAddFrom(a, b, 1, 0)

RECURSIVE BigSubFrom(_, _, _, _)
BigSubFrom(a, b, i, borrow) ==
    IF i > Len(a) THEN << >>
    ELSE LET d == Digit(a, i) - Digit(b, i) - borrow
         IN  <<IF d < 0 THEN d + Base ELSE d>>
                \o BigSubFrom(a, b, i + 1, IF d < 0 THEN 1 ELSE 0)

\* a - b for a >= b
BigSub(a, b) == BigNorm(BigSubFrom(a, b, 1, 0))

RECURSIVE BigLessAt(_, _, _)
BigLessAt(a, b, i) ==
    IF i = 0 THEN FALSE
    ELSE IF a[i] # b[i] THEN a[i] < b[i] ELSE BigLessAt(a, b, i - 1)

BigLess(a, b) ==
    IF Len(a) # Len(b) THEN Len(a) < Len(b) ELSE BigLessAt(a, b, Len(a))

\* the digit of weight Base^(k-1) of a * b, before the carries
ColumnSum(a, b, k) ==
    LET I == {i \in 1..Len(a) : k + 1 - i \in 1..Len(b)}
    IN  SumOver([i \in I |-> a[i] * b[k + 1 - i]], I)

RECURSIVE BigMulFrom(_, _, _, _)
BigMulFrom(a, b, k, carry) ==
    IF k > Len(a) + Len(b)
    THEN IF carry = 0 THEN << >> ELSE <<carry>>
    ELSE LET d == ColumnSum(a, b, k) + carry
         IN  <<d % Base>> \o BigMulFrom(a, b, k + 1, d \div Base)

BigMul(a, b) ==
    IF a = << >> \/ b = << >> THEN << >> ELSE BigNorm(BigMulFrom(a, b, 1, 0))

\* 2^k
BigPow2(k) ==
    [i \in 1..(k \div 14 + 1) |-> IF i = k \div 14 + 1 THEN 2^(k % 14) ELSE 0]

\* the number of bits of a
BigBitLen(a) ==
    IF a = << >> THEN 0
    ELSE 14 * (Len(a) - 1)
           + (CHOOSE n \in 1..14 : 2^(n - 1) <= a[Len(a)] /\ a[Len(a)] < 2^n)

\* a \div 2^k
BigShr(a, k) ==
    LET w == k \div 14
        b == k % 14
    IN  IF Len(a) <= w THEN << >>
        ELSE BigNorm([i \in 1..(Len(a) - w) |->
                         (a[i + w] \div 2^b)
                           + (Digit(a, i + w + 1) % 2^b) * 2^(14 - b)])

\* a % 2^k
BigLowBits(a, k) == BigSub(a, BigMul(BigShr(a, k), BigPow2(k)))

\* bit k of a, bit 0 being the lowest
BigBit(a, k) == (Digit(a, k \div 14 + 1) \div 2^(k % 14)) % 2

\* values: t is "num" (the float m * 2^e), "tok" (the non-numeric value s),
\* "absent" (no entry for the key) or "TypeError"
Float(m, e) == [t |-> "num", m |-> m, e |-> e, s |-> ""]
Zero == Float(<< >>, 0)

\* the float nearest to n * 2^e, or to a number between n * 2^e and
\* (n + 1) * 2^e when inexact holds; ties go to the even mantissa
RoundToNearestEven(n, e, inexact) ==
    LET len == BigBitLen(n)
    IN  IF n = << >> THEN Zero
        ELSE IF len <= Precision
        THEN Float(BigMul(n, BigPow2(Precision - len)), e - (Precision - len))
        ELSE LET drop == len - Precision
                 q == BigShr(n, drop)
                 half == BigBit(n, drop - 1) = 1
                 rest == inexact \/ BigLowBits(n, drop - 1) # << >>
                 up == half /\ (rest \/ BigBit(q, 0) = 1)
                 q1 == IF up THEN BigAdd(q, <<1>>) ELSE q
             IN  IF BigBitLen(q1) > Precision
                 THEN Float(BigShr(q1, 1), e + drop + 1)
                 ELSE Float(q1, e + drop)

\* float(n) for an int n
FloatFromInt(n) == RoundToNearestEven(BigFromInt(n), 0, FALSE)

\* a + b
FloatAdd(a, b) ==
    IF a = Zero THEN b
    ELSE IF b = Zero THEN a
    ELSE LET e == IF a.e <= b.e THEN a.e ELSE b.e
         IN  RoundToNearestEven(BigAdd(BigMul(a.m, BigPow2(a.e - e)),
                                       BigMul(b.m, BigPow2(b.e - e))),
                                e, FALSE)

\* a * b
FloatMul(a, b) ==
    IF a = Zero \/ b = Zero THEN Zero
    ELSE RoundToNearestEven(BigMul(a.m, b.m), a.e + b.e, FALSE)

\* the number whose binary digits are bits, most significant first
BigFromBits(bits) ==
    LET n == Len(bits)
    IN  BigNorm([i \in 1..((n + 13) \div 14) |->
                    SumOver([t \in 0..13 |->
                                IF 14 * (i - 1) + t < n
                                THEN bits[n - (14 * (i - 1) + t)] * 2^t ELSE 0],
                            0..13)])

RECURSIVE DivBits(_, _, _)
\* long division: the next k >= 1 binary digits of the quotient of r by d,
\* r < d, and the remainder left; the digits are produced half by half
DivBits(r, d, k) ==
    IF k = 1
    THEN LET r2 == BigAdd(r, r)
         IN  IF BigLess(r2, d) THEN [bits |-> <<0>>, r |-> r2]
             ELSE [bits |-> <<1>>, r |-> BigSub(r2, d)]
    ELSE LET first == DivBits(r, d, k \div 2)
             second == DivBits(first.r, d, k - k \div 2)
         IN  [bits |-> first.bits \o second.bits, r |-> second.r]

\* a / b for b # 0: the quotient of the mantissas to Precision + 3 bits after
\* the point, rounded once
FloatDiv(a, b) ==
    IF a = Zero THEN Zero
    ELSE LET first == IF BigLess(a.m, b.m) THEN 0 ELSE 1
             qr == DivBits(IF first = 1 THEN BigSub(a.m, b.m) ELSE a.m, b.m,
                           Precision + 3)
         IN  RoundToNearestEven(BigFromBits(<<first>> \o qr.bits),
                                a.e - b.e - (Precision + 3), qr.r # << >>)

\* a <= b
FloatLeq(a, b) ==
    IF a = Zero THEN TRUE
    ELSE IF b = Zero THEN FALSE
    ELSE a.e < b.e \/ (a.e = b.e /\ ~BigLess(b.m, a.m))

\* a decimal literal n/d of the source, such as 0.4: the float nearest to it
FloatLiteral(n, d) == FloatDiv(FloatFromInt(n), FloatFromInt(d))

RECURSIVE FloatSum(_, _)
\* sum(...) starting from acc, left to right
FloatSum(ws, acc) ==
    IF ws = << >> THEN acc ELSE FloatSum(Tail(ws), FloatAdd(acc, Head(ws)))

(***************************************************************************)
(* factories/strategy_factory.py: HybridStrategy                           *)
(*                                                                         *)
(* A candidate's result is a mapping from some of ResultKeys to a value:   *)
(* a number (int, float or bool in the source) or another kind of value    *)
(* (a string or list), here a token.  The numbers the candidates report    *)
(* are ints; `value * weight` converts them to float, so that every number *)
(* in a combination is a float.                                            *)
(***************************************************************************)
ResultKeys == {"severity_score", "urgency_level"}

Num(n) == FloatFromInt(n)
Tok(x) == [t |-> "tok", m |-> << >>, e |-> 0, s |-> x]
Absent == [t |-> "absent", m |-> << >>, e |-> 0, s |-> ""]
TypeError == [t |-> "TypeError", m |-> << >>, e |-> 0, s |-> ""]

CandidateValues == {Num(10), Num(20), Tok("high"), Absent}
CandidateResults == [ResultKeys -> CandidateValues]

\* isinstance(value, (int, float))
IsNumber(v) == v.t = "num"

\* the weights appended by HybridStrategy.__init__: 0.4, 0.3 and 0.3
WEIGHT_OPENAI == FloatLiteral(4, 10)
WEIGHT_LOCAL_MODEL == FloatLiteral(3, 10)
WEIGHT_RULE_BASED == FloatLiteral(3, 10)

configured_weight(name) ==
    CASE name = OPENAI -> WEIGHT_OPENAI
      [] name = LOCAL_MODEL -> WEIGHT_LOCAL_MODEL
      [] OTHER -> WEIGHT_RULE_BASED

hybrid_candidates_not_normalized(available) ==
    LET order == <<OPENAI, LOCAL_MODEL, RULE_BASED>>
        names == SelectSeq(order, LAMBDA n : n \in available)
    IN  [i \in 1..Len(names) |->
            [name |-> names[i], weight |-> configured_weight(names[i])]]

\* HybridStrategy.__init__: the candidates that could be created, in the order
\* openai, local model, rule engine, with their weights divided by
\* total_weight = sum(self.weights)
hybrid_candidates(available) ==
    LET order == <<OPENAI, LOCAL_MODEL, RULE_BASED>>
        names == SelectSeq(order, LAMBDA n : n \in available)
        raw == [i \in 1..Len(names) |-> configured_weight(names[i])]
        total_weight == FloatSum(raw, Num(0))
    IN  [i \in 1..Len(names) |->
            [name |-> names[i], weight |-> FloatDiv(raw[i], total_weight)]]

\* HybridStrategy.__init__ and the locals of one call; the rule engine is created
\* outside any try, so its failure fails the construction
NewHybrid(available, op) ==
    [strategies |-> IF RULE_BASED \in available
                    THEN hybrid_candidates(available) ELSE << >>,
     op |-> op,
     status |-> IF RULE_BASED \in available THEN "ready" ELSE "not_constructed",
     idx |-> 0, results |-> << >>, failed |-> {},
     outcome |-> [kind |-> "none"]]

accumulate_unweighted(acc, value, weight) ==
    IF IsNumber(value)
    THEN LET cur == IF acc = Absent THEN Num(0) ELSE acc
         IN  IF ~IsNumber(cur) THEN TypeError ELSE FloatAdd(cur, value)
    ELSE IF acc = TypeError THEN TypeError ELSE value

accumulate_overwrite(acc, value, weight) ==
    IF acc = TypeError THEN TypeError
    ELSE IF IsNumber(value) THEN FloatMul(value, weight) ELSE value

\* _combine_results, the body of the inner loop for one key of one result:
\* `combined[key] += value * weight` needs a number in combined[key]
accumulate(acc, value, weight) ==
    IF IsNumber(value)
    THEN LET cur == IF acc = Absent THEN Num(0) ELSE acc
         IN  IF ~IsNumber(cur) THEN TypeError
             ELSE FloatAdd(cur, FloatMul(value, weight))
    ELSE IF acc = TypeError THEN TypeError ELSE value

RECURSIVE combine_key(_, _, _)
\* _combine_results restricted to one key: the results are folded in list order
combine_key(results, key, acc) ==
    IF results = << >> THEN acc
    ELSE LET r == Head(results)
             next == IF r.result[key] = Absent THEN acc
                     ELSE accumulate(acc, r.result[key], r.weight)
         IN  combine_key(Tail(results), key, next)

HYBRID_CONFIDENCE == 85     \* HybridStrategy.get_confidence_score: 0.85, in hundredths

\* HybridStrategy._combine_results
combine_results(results) ==
    IF results = << >>
    THEN [kind |-> "value", combined |-> [error |-> "No strategies available"]]
    ELSE LET combined == [k \in ResultKeys |-> combine_key(results, k, Absent)]
         IN  IF \E k \in ResultKeys : combined[k] = TypeError
             THEN [kind |-> "raised", error |-> "TypeError"]
             ELSE [kind |-> "value", combined |-> combined,
                   strategy_used |-> "hybrid",
                   strategy_confidence |-> HYBRID_CONFIDENCE]

\* the loop of analyze_symptoms / process_medical_text: the next candidate is
\* invoked, or the loop is over and the results are combined
hybrid_next(h, i) ==
    IF i <= Len(h.strategies)
    THEN [h EXCEPT !.idx = i, !.status = "calling"]
    ELSE LET out == combine_results(h.results)
         IN  [h EXCEPT !.status = IF out.kind = "raised" THEN "raised" ELSE "returned",
                       !.outcome = out]

HybridStart ==
    /\ hy.status = "ready"
    /\ hy' = hybrid_next(hy, 1)
    /\ UNCHANGED <<cbVars, rt, fb, ch, oa, mgr, ac, ly>>

\* the candidate in progress returns res
HybridCandidateReturns(res) ==
    /\ hy.status = "calling"
    /\ hy' = hybrid_next(
                [hy EXCEPT !.results =
                    Append(hy.results,
                           [result |-> res, weight |-> hy.strategies[hy.idx].weight,
                            name |-> hy.strategies[hy.idx].name])],
                hy.idx + 1)
    /\ UNCHANGED <<cbVars, rt, fb, ch, oa, mgr, ac, ly>>

candidate_raised_propagates(h) ==
    [h EXCEPT !.failed = h.failed \cup {h.strategies[h.idx].name},
              !.status = "raised",
              !.outcome = [kind |-> "raised", error |-> h.strategies[h.idx].name]]

\* `except Exception` in the loop: the failure is logged, nothing is appended to
\* results and the loop goes on
candidate_raised(h) ==
    hybrid_next([h EXCEPT !.failed = h.failed \cup {h.strategies[h.idx].name}],
                h.idx + 1)

\* the candidate in progress raises
HybridCandidateRaises ==
    /\ hy.status = "calling"
    /\ hy' = candidate_raised(hy)
    /\ UNCHANGED <<cbVars, rt, fb, ch, oa, mgr, ac, ly>>

HybridInit ==
    hy \in {NewHybrid(available, op) :
               available \in SUBSET StrategyNames, op \in Operations}

InitHybrid ==
    /\ BreakerUnused
    /\ rt = Idle
    /\ fb = Idle
    /\ HybridInit
    /\ ch = Idle
    /\ oa = Idle
    /\ mgr = Idle
    /\ ac = Idle
    /\ ly = Idle

NextHybrid ==
    \/ HybridStart
    \/ \E res \in CandidateResults : HybridCandidateReturns(res)
    \/ HybridCandidateRaises

SpecHybrid == InitHybrid /\ [][NextHybrid]_vars

(***************************************************************************)
(* Properties of the Hybrid composer.                                      *)
(***************************************************************************)
\* the results that report key k, and whether all of them report a number
Reporting(results, k) == {i \in 1..Len(results) : results[i].result[k] # Absent}
NumericKey(results, k) ==
    /\ Reporting(results, k) # {}
    /\ \A i \in Reporting(results, k) : IsNumber(results[i].result[k])

RECURSIVE WeightedSumFrom(_, _, _, _)
WeightedSumFrom(results, k, i, acc) ==
    IF i > Len(results) THEN acc
    ELSE WeightedSumFrom(results, k, i + 1,
            IF i \in Reporting(results, k)
            THEN FloatAdd(acc, FloatMul(results[i].result[k], results[i].weight))
            ELSE acc)

\* sum of value x weight over the results reporting k, in the order of the
\* results, in float arithmetic
WeightedSum(results, k) == WeightedSumFrom(results, k, 1, Num(0))

ExampleA == [result |-> [k \in ResultKeys |->
                            IF k = "severity_score" THEN Num(10) ELSE Absent],
             weight |-> FloatLiteral(6, 10), name |-> "A"]
ExampleB == [result |-> [k \in ResultKeys |->
                            IF k = "severity_score" THEN Num(20) ELSE Absent],
             weight |-> FloatLiteral(4, 10), name |-> "B"]

ExampleCombined == combine_results(<<ExampleA, ExampleB>>)

\* C8: when every candidate succeeds, the combined value of each numeric key is
\* the sum over the candidates of normalized weight x the candidate's value for
\* the key; weights .6 and .4 with values 10 and 20 combine to 14.
C8_HybridWeightedSum ==
    /\ (hy.status = "returned" /\ hy.failed = {} /\ hy.results # << >>)
         => \A k \in ResultKeys :
               NumericKey(hy.results, k)
                 => /\ IsNumber(hy.outcome.combined[k])
                    /\ hy.outcome.combined[k] = WeightedSum(hy.results, k)
    /\ ExampleCombined.combined["severity_score"] = Num(14)

C8_Witness ==
    /\ hy.status = "returned"
    /\ Len(hy.results) = 3
    /\ hy.failed = {}
    /\ hy.results[1].result["severity_score"] = Num(10)
    /\ hy.results[2].result["severity_score"] = Num(20)
    /\ hy.results[3].result["severity_score"] = Num(20)
    /\ hy.outcome.combined["severity_score"] = Num(16)

HybridDone == hy.status \in {"returned", "raised"}

\* C13: in a Hybrid call a candidate whose call raises contributes nothing to
\* the combination, while the results of the other candidates are combined with
\* their own weights; when every candidate raises the call returns the error
\* object and does not raise.
C13_HybridPartialFailure ==
    (HybridDone /\ hy.failed # {})
      => LET n == Len(hy.strategies)
             succeeded == SelectSeq([i \in 1..n |-> hy.strategies[i]],
                                    LAMBDA c : c.name \notin hy.failed)
         IN  /\ Len(hy.results) = Len(succeeded)
             /\ \A i \in 1..Len(succeeded) :
                   /\ hy.results[i].name = succeeded[i].name
                   /\ hy.results[i].weight = succeeded[i].weight
             /\ (hy.results = << >>)
                   => /\ hy.status = "returned"
                      /\ hy.outcome.combined = [error |-> "No strategies available"]
             /\ (hy.results # << >> /\ hy.status = "returned")
                   => \A k \in ResultKeys :
                         NumericKey(hy.results, k)
                           => hy.outcome.combined[k] = WeightedSum(hy.results, k)

\* C37: for every subset of base strategies that can be constructed, the
\* weights of the Hybrid after construction are all positive and sum to 1, and
\* they keep the ratio of the configured weights (0.4 : 0.3 : 0.3 for openai :
\* local model : rule engine), sums and products being those of the floats.
C37_WeightsNormalized ==
    hy.status # "not_constructed"
      => LET n == Len(hy.strategies)
             w == [i \in 1..n |-> hy.strategies[i].weight]
             c == [i \in 1..n |-> configured_weight(hy.strategies[i].name)]
         IN  /\ n >= 1
             /\ \A i \in 1..n : IsNumber(w[i]) /\ w[i] # Zero
             /\ FloatSum(w, Num(0)) = Num(1)
             /\ \A i, j \in 1..n :
                   i < j => FloatMul(w[i], c[j]) = FloatMul(w[j], c[i])

\* the local model could not be created: openai and the rule engine weigh
\* 0.4 / 0.7 = 0.5714285714285715 (0x1.2492492492493p-1) and
\* 0.3 / 0.7 = 0.4285714285714286 (0x1.b6db6db6db6dcp-2)
C37_Witness ==
    /\ Len(hy.strategies) = 2
    /\ hy.strategies[1].name = OPENAI
    /\ hy.strategies[1].weight = Float(<<9363, 2340, 4681, 1170>>, -53)
    /\ hy.strategies[2].name = RULE_BASED
    /\ hy.strategies[2].weight = Float(<<14044, 11702, 7021, 1755>>, -54)

\* C34: _combine_results returns a combined mapping and never raises for a
\* non-empty list of successful results, also when a key holds a number in one
\* result and a non-numeric value in another, in either order.
C34_CombineNeverRaises ==
    (HybridDone /\ hy.results # << >>)
      => /\ hy.status = "returned"
         /\ hy.outcome.kind = "value"

\* C35: for every numeric key, the value in a Hybrid combined result lies
\* between the minimum and the maximum of the values the succeeding candidates
\* reported for the key, also when some candidate fails or omits the key.
C35_CombinedWithinRange ==
    (hy.status = "returned" /\ hy.results # << >>)
      => \A k \in ResultKeys :
            NumericKey(hy.results, k)
              => /\ IsNumber(hy.outcome.combined[k])
                 /\ \E i \in Reporting(hy.results, k) :
                       FloatLeq(hy.results[i].result[k], hy.outcome.combined[k])
                 /\ \E i \in Reporting(hy.results, k) :
                       FloatLeq(hy.outcome.combined[k], hy.results[i].result[k])

\* C28: a Hybrid call starts every candidate's call before it waits for any of
\* them to complete: whenever the Hybrid is suspended on a candidate's call,
\* the calls of all its candidates have been started (idx is the number of
\* candidates started so far), so candidate i+1 runs while candidate i is
\* suspended.
C28_HybridStartsAllBeforeWaiting ==
    hy.status = "calling" => hy.idx = Len(hy.strategies)

\* the remote candidate raised; the other two (weights .3 and .3) reported 10
\* and 20
C13_Witness ==
    /\ hy.status = "returned"
    /\ Len(hy.strategies) = 3
    /\ hy.failed = {OPENAI}
    /\ hy.results[1].result["severity_score"] = Num(10)
    /\ hy.results[2].result["severity_score"] = Num(20)
    /\ hy.outcome.combined["severity_score"] = Num(9)

(***************************************************************************)
(* decorators/cache_decorator.py: CacheDecorator over core/cache.py        *)
(*                                                                         *)
(* The wrapped operation is called with an argument from Arguments; each   *)
(* invocation returns a value or raises.  A value is a JSON-serializable   *)
(* dict or list ("dict"), a non-empty string that is not JSON ("text"),    *)
(* the empty string ("empty"), None ("none") or the dict {"error": ...}    *)
(* that a Hybrid operation returns when all its candidates failed          *)
(* ("error_object").  The key of a call is the md5 of the JSON dump of     *)
(* (function name, args, kwargs) with sort_keys and default=str: an        *)
(* argument is its dump and its form, a tuple and a list of the same       *)
(* items having the same dump (as have '1' and Decimal('1')), and a dict   *)
(* with keys of mixed types having no dump at all (json.dumps raises).     *)
(* md5 is taken to be injective on the dumps.  The wrapper is a coroutine  *)
(* function: the calls of the callers in CacheCallers run on one event     *)
(* loop and interleave where the wrapper awaits (the GET and SETEX round   *)
(* trips to Redis, which exist only with a client, and the wrapped         *)
(* operation).  delete_cache and clear_cache_pattern of core/cache.py can  *)
(* be called at any time; clear_cache_pattern awaits KEYS and then DEL,    *)
(* and one call of it is in progress at a time.  Some fields are history:  *)
(* returned is the set of values the operation has returned, uses[a] the   *)
(* number of calls made so far with argument a (2: two or more), memo[k]   *)
(* says that the                                                           *)
(* wrapper, with a client, has returned a value for key k, that the TTL    *)
(* begun then is still running and that the key has not been deleted       *)
(* since; of a call, expected is memo[key] as it was when the call began   *)
(* (false once the TTL has run out or the key has been deleted).           *)
(***************************************************************************)
CacheCallers == 1..NumCacheCallers
ValueKinds == {"dict", "text", "empty", "none", "error_object"}

\* the arguments of a call: the number of their JSON dump and what they are
Arg(dump, form) == [dump |-> dump, form |-> form]
NoArgument == Arg(0, "none")
\* a dict whose keys json.dumps cannot sort, e.g. {1: 'a', 'b': 2}
Unsortable == Arg(0, "mixed_keys")
\* NumArguments arguments that have a dump, two to a dump (a tuple and the list
\* of the same items), and one that has none
Arguments ==
    {Arg((n + 1) \div 2, IF n % 2 = 1 THEN "tuple" ELSE "list") : n \in 1..NumArguments}
      \cup {Unsortable}

Value(kind, a) == [kind |-> kind, of |-> a]
\* a stored Redis string: the JSON dump of a value, or the string itself
Entry(form, v) == [form |-> form, kind |-> v.kind, of |-> v.of]
NoEntry == [form |-> "none", kind |-> "", of |-> NoArgument]
None == [kind |-> "None", of |-> NoArgument]

\* CacheDecorator._generate_cache_key: json.dumps raises for arguments it
\* cannot sort or dump; otherwise the key is the hash of the dump
generate_cache_key(a) ==
    [raised |-> a.form = "mixed_keys", key |-> a.dump]
CacheKeys ==
    {generate_cache_key(a).key :
        a \in {b \in Arguments : ~generate_cache_key(b).raised}}

\* core.cache.set_cache: dicts and lists are dumped to JSON, strings are stored
\* as they are; without a client, or when Redis refuses the value (None),
\* nothing is stored
set_cache(store, client, key, v) ==
    IF ~client THEN store
    ELSE CASE v.kind \in {"dict", "error_object"}
                -> [store EXCEPT ![key] = Entry("json", v)]
           [] v.kind \in {"text", "empty"} -> [store EXCEPT ![key] = Entry("raw", v)]
           [] OTHER -> store

\* core.cache.get_cache: the stored string parsed as JSON when it parses, the
\* string itself otherwise; None when there is no client, no entry, or the
\* string read is empty (`if value:`)
get_cache(store, client, key) ==
    IF ~client \/ store[key] = NoEntry \/ store[key].kind = "empty" THEN None
    ELSE Value(store[key].kind, store[key].of)

\* core.cache.delete_cache: without a client nothing happens
delete_cache(store, client, key) ==
    IF ~client THEN store ELSE [store EXCEPT ![key] = NoEntry]

\* core.cache.clear_cache_pattern, `keys = await cache_client.keys(pattern)`:
\* the keys the pattern matches that hold an entry
pattern_keys(store, client, matching) ==
    IF ~client THEN {} ELSE {k \in matching : store[k] # NoEntry}

\* core.cache.clear_cache_pattern, `await cache_client.delete(*keys)`: the keys
\* that KEYS found are deleted
clear_cache_pattern(store, client, keys) ==
    IF ~client THEN store
    ELSE [k \in CacheKeys |-> IF k \in keys THEN NoEntry ELSE store[k]]

\* the locals of one call of the wrapper
NoCacheCall ==
    [status |-> "idle", args |-> NoArgument, key |-> 0, miss_raised |-> FALSE,
     op_count |-> 0, result |-> None, expected |-> FALSE,
     outcome |-> [kind |-> "none", of |-> NoArgument]]

\* CacheDecorator.__init__ / init_cache, and the wrapper before any call;
\* clearing is the list of keys a clear_cache_pattern in progress got from KEYS
NewCache(client) ==
    [client |-> client, store |-> [k \in CacheKeys |-> NoEntry],
     call |-> [c \in CacheCallers |-> NoCacheCall],
     clearing |-> {},
     ncalls |-> 0, returned |-> {},
     memo |-> [k \in CacheKeys |-> FALSE], uses |-> [a \in Arguments |-> 0]]

\* the wrapped operation is entered by caller c
invoke_op(h, c, status) ==
    [h EXCEPT !.call[c].op_count = h.call[c].op_count + 1,
              !.call[c].status = status]

\* wrapper: after `cached_result = await get_cache(cache_key)`; a cached str is
\* handed to json.loads, which raises on text, and the except branch then
\* executes the function
after_lookup(h, c) ==
    LET cached == get_cache(h.store, h.client, h.call[c].key)
    IN  IF cached # None
        THEN IF cached.kind = "text"
             THEN invoke_op(h, c, "fallback")
             ELSE [h EXCEPT !.call[c].status = "returned",
                            !.call[c].outcome = cached]
        ELSE invoke_op(h, c, "calling")

\* wrapper: `cache_key = self._generate_cache_key(...)` outside the try, then
\* `await get_cache(cache_key)`: when json.dumps raises, the wrapper raises
\* without the operation having been entered; get_cache returns None at once
\* without a client and awaits GET with one
begin_call(h, c, a) ==
    LET k == generate_cache_key(a)
    IN  IF k.raised
        THEN [h EXCEPT !.call[c] =
                 [NoCacheCall EXCEPT !.status = "raised", !.args = a,
                                     !.outcome = [kind |-> "key_error", of |-> a]]]
        ELSE LET h1 == [h EXCEPT !.call[c] =
                           [NoCacheCall EXCEPT !.status = "get", !.args = a,
                                               !.key = k.key,
                                               !.expected = h.memo[k.key]]]
             IN  IF h.client THEN h1 ELSE after_lookup(h1, c)

\* wrapper: `return result` after set_cache is over
return_result(h, c) ==
    LET v == h.call[c].result
    IN  [h EXCEPT !.memo = [h.memo EXCEPT ![h.call[c].key] = h.client],
                  !.call[c].status = "returned", !.call[c].outcome = v]

\* set_cache at the end of the round trip to Redis (setex), and the return
after_store(h, c) ==
    return_result([h EXCEPT !.store = set_cache(h.store, h.client,
                                                h.call[c].key, h.call[c].result)],
                  c)

\* wrapper: the function returned v on a cache miss: `await set_cache(...)`,
\* which returns at once without a client and awaits setex with one
after_return(h, c, v) ==
    LET h1 == [h EXCEPT !.returned = h.returned \cup {v}, !.call[c].result = v]
    IN  IF h.client THEN [h1 EXCEPT !.call[c].status = "storing"]
        ELSE return_result(h1, c)

after_raise_cached(h, c) ==
    invoke_op([h EXCEPT !.call[c].miss_raised = TRUE,
                        !.store = [h.store EXCEPT ![h.call[c].key] =
                                      Entry("raw", Value("error", h.call[c].args))]],
              c, "fallback")

\* wrapper: the function raised on a cache miss: `except Exception` logs and
\* executes the function again
after_raise(h, c) ==
    invoke_op([h EXCEPT !.call[c].miss_raised = TRUE], c, "fallback")

\* caller c is not in a call of the wrapper
CacheCallerFree(c) == ch.call[c].status \in {"idle", "returned", "raised"}

\* caller c calls the wrapper with argument a; the callers being
\* interchangeable, a call is made by the first free caller
CacheCall(c, a) ==
    /\ CacheCallerFree(c)
    /\ \A d \in CacheCallers : d < c => ~CacheCallerFree(d)
    /\ ch.ncalls < MaxCacheCalls
    /\ ch' = begin_call([ch EXCEPT !.ncalls = ch.ncalls + 1,
                                   !.uses = [ch.uses EXCEPT ![a] = Min(ch.uses[a] + 1, 2)]],
                        c, a)
    /\ UNCHANGED <<cbVars, rt, fb, hy, oa, mgr, ac, ly>>

\* the GET of caller c completes
CacheLookup(c) ==
    /\ ch.call[c].status = "get"
    /\ ch' = after_lookup(ch, c)
    /\ UNCHANGED <<cbVars, rt, fb, hy, oa, mgr, ac, ly>>

\* the operation invoked on a miss returns a value of the given kind
CacheFuncReturns(c, kind) ==
    /\ ch.call[c].status = "calling"
    /\ ch' = after_return(ch, c, Value(kind, ch.call[c].args))
    /\ UNCHANGED <<cbVars, rt, fb, hy, oa, mgr, ac, ly>>

\* the SETEX of caller c completes
CacheStored(c) ==
    /\ ch.call[c].status = "storing"
    /\ ch' = after_store(ch, c)
    /\ UNCHANGED <<cbVars, rt, fb, hy, oa, mgr, ac, ly>>

CacheFuncRaises(c) ==
    /\ ch.call[c].status = "calling"
    /\ ch' = after_raise(ch, c)
    /\ UNCHANGED <<cbVars, rt, fb, hy, oa, mgr, ac, ly>>

\* the kinds of value of the function executed by the except branch: the value
\* is returned as it is, neither stored nor decoded, so what it is matters only
\* in being the all-failed error object or not
FallbackKinds == {"dict", "error_object"}

\* the function executed by the except branch returns: its value is returned
\* and not stored
CacheFallbackReturns(c, kind) ==
    /\ ch.call[c].status = "fallback"
    /\ LET v == Value(kind, ch.call[c].args)
       IN  ch' = return_result([ch EXCEPT !.returned = ch.returned \cup {v},
                                          !.call[c].result = v], c)
    /\ UNCHANGED <<cbVars, rt, fb, hy, oa, mgr, ac, ly>>

\* the function executed by the except branch raises: the error propagates
CacheFallbackRaises(c) ==
    /\ ch.call[c].status = "fallback"
    /\ ch' = [ch EXCEPT !.call[c].status = "raised",
                        !.call[c].outcome = [kind |-> "error", of |-> ch.call[c].args]]
    /\ UNCHANGED <<cbVars, rt, fb, hy, oa, mgr, ac, ly>>

\* the keys in K no longer hold what the wrapper returned for them
forget(h, K) ==
    [h EXCEPT !.memo = [k \in CacheKeys |-> h.memo[k] /\ k \notin K],
              !.call = [c \in CacheCallers |->
                           IF h.call[c].key \in K
                           THEN [h.call[c] EXCEPT !.expected = FALSE]
                           ELSE h.call[c]]]

\* the TTL that began when a value was last returned for the key runs out; the
\* entry, if setex stored one, is gone
CacheExpire(k) ==
    /\ ch.store[k] # NoEntry \/ ch.memo[k]
    /\ ch' = forget([ch EXCEPT !.store = [ch.store EXCEPT ![k] = NoEntry]], {k})
    /\ UNCHANGED <<cbVars, rt, fb, hy, oa, mgr, ac, ly>>

\* core.cache.delete_cache(k) is called while the key holds an entry
CacheDelete(k) ==
    /\ ch.client
    /\ ch.store[k] # NoEntry
    /\ ch' = forget([ch EXCEPT !.store = delete_cache(ch.store, ch.client, k)], {k})
    /\ UNCHANGED <<cbVars, rt, fb, hy, oa, mgr, ac, ly>>

\* the patterns clear_cache_pattern is called with, each as the set of keys it
\* matches: 'cache:<function>:*', every key of the function
Patterns == {CacheKeys}

\* core.cache.clear_cache_pattern is called with a pattern that matches the
\* keys in K, and its KEYS completes: it found some keys and awaits their DEL
\* (when it finds none it returns 0 and nothing has changed)
CacheClearPattern(K) ==
    /\ ch.client
    /\ ch.clearing = {}
    /\ pattern_keys(ch.store, ch.client, K) # {}
    /\ ch' = [ch EXCEPT !.clearing = pattern_keys(ch.store, ch.client, K)]
    /\ UNCHANGED <<cbVars, rt, fb, hy, oa, mgr, ac, ly>>

\* the DEL of the clear_cache_pattern in progress completes: the keys that
\* KEYS found are deleted, those stored since are not
CacheCleared ==
    /\ ch.clearing # {}
    /\ ch' = forget([ch EXCEPT !.store = clear_cache_pattern(ch.store, ch.client,
                                                             ch.clearing),
                               !.clearing = {}],
                    ch.clearing)
    /\ UNCHANGED <<cbVars, rt, fb, hy, oa, mgr, ac, ly>>

CacheInit == ch \in {NewCache(client) : client \in BOOLEAN}

InitCache ==
    /\ BreakerUnused
    /\ rt = Idle
    /\ fb = Idle
    /\ hy = Idle
    /\ CacheInit
    /\ oa = Idle
    /\ mgr = Idle
    /\ ac = Idle
    /\ ly = Idle

NextCache ==
    \/ \E c \in CacheCallers : \E a \in Arguments : CacheCall(c, a)
    \/ \E c \in CacheCallers : CacheLookup(c)
    \/ \E c \in CacheCallers : \E kind \in ValueKinds : CacheFuncReturns(c, kind)
    \/ \E c \in CacheCallers : CacheStored(c)
    \/ \E c \in CacheCallers : CacheFuncRaises(c)
    \/ \E c \in CacheCallers : \E kind \in FallbackKinds : CacheFallbackReturns(c, kind)
    \/ \E c \in CacheCallers : CacheFallbackRaises(c)
    \/ \E k \in CacheKeys : CacheExpire(k)
    \/ \E k \in CacheKeys : CacheDelete(k)
    \/ \E K \in Patterns : CacheClearPattern(K)
    \/ CacheCleared

SpecCache == InitCache /\ [][NextCache]_vars

(***************************************************************************)
(* Properties of the cache wrapper.                                        *)
(***************************************************************************)
CacheCallDone(c) == ch.call[c].status \in {"returned", "raised"}

\* C9: when the wrapped operation raises on a cache miss, the call through the
\* cache wrapper raises; a raised error is never turned into a returned value.
C9_CacheNeverMasks ==
    \A c \in CacheCallers :
        (CacheCallDone(c) /\ ch.call[c].miss_raised) => ch.call[c].status = "raised"

\* C10: a key of the cache holds an entry only if an invocation of the
\* operation with arguments of that key returned a value, and the entry is that
\* value; an invocation that raises writes nothing.
C10_ErrorsNeverCached ==
    \A k \in CacheKeys :
       LET e == ch.store[k]
       IN  e # NoEntry
             => /\ e.kind \in {"dict", "text", "empty", "error_object"}
                /\ Value(e.kind, e.of) \in ch.returned
                /\ ~generate_cache_key(e.of).raised
                /\ generate_cache_key(e.of).key = k

\* a call whose operation raised both times has ended, and the cache holds the
\* value that another call's invocation returned
C10_Witness ==
    \E c \in CacheCallers :
        /\ ch.call[c].status = "raised"
        /\ ch.call[c].miss_raised
        /\ \E k \in CacheKeys :
              /\ ch.store[k] # NoEntry
              /\ Value(ch.store[k].kind, ch.store[k].of) \in ch.returned

\* C21: after a call through the cache wrapper has returned a value, a second
\* call with the same arguments made within the TTL returns a value stored for
\* those arguments without invoking the operation, while calls with different
\* arguments have different keys and a call with arguments not used before
\* invokes the operation.
C21_CacheMemoizes ==
    /\ \A c \in CacheCallers :
          (CacheCallDone(c) /\ ch.call[c].expected)
             => /\ ch.call[c].status = "returned"
                /\ ch.call[c].op_count = 0
                /\ ch.call[c].outcome \in ch.returned
                /\ ch.call[c].outcome.of = ch.call[c].args
    /\ \A c, d \in CacheCallers :
          (/\ ch.call[c].status \notin {"idle"}
           /\ ch.call[d].status \notin {"idle"}
           /\ ch.call[c].args # ch.call[d].args)
             => /\ ch.call[c].outcome.kind # "key_error"
                /\ ch.call[c].key # ch.call[d].key
    /\ \A c \in CacheCallers :
          (CacheCallDone(c) /\ ch.uses[ch.call[c].args] = 1)
             => ch.call[c].op_count >= 1

\* C32: when every sub-strategy of a Hybrid call fails and the call is wrapped
\* by the cache, the all-failed outcome is not stored: no key holds it, and a
\* call that is answered with it has invoked the operation.
C32_AllFailedNotCached ==
    /\ \A k \in CacheKeys : ch.store[k].kind # "error_object"
    /\ \A c \in CacheCallers :
          (CacheCallDone(c) /\ ch.call[c].status = "returned"
             /\ ch.call[c].outcome.kind = "error_object")
            => ch.call[c].op_count >= 1

\* C26: one call through the cache wrapper invokes the wrapped operation (the
\* layers beneath it: breaker > retry > operation) at most once, also when the
\* operation raises.
C26_CacheInvokesAtMostOnce ==
    \A c \in CacheCallers : CacheCallDone(c) => ch.call[c].op_count <= 1

(***************************************************************************)
(* services/symptom_analysis_service.py: the decorator stack of            *)
(* analyze_symptoms_comprehensive.  with_circuit_breaker is applied over   *)
(* with_retry, so the function the breaker wraps is the retry wrapper and  *)
(* the function the retry wrapper invokes is the operation (under          *)
(* with_metrics, which re-raises).  One call at a time goes through the    *)
(* stack; `invocations` counts the breaker's invocations of the retry      *)
(* wrapper, rt.invocations the retry wrapper's invocations of the          *)
(* operation.                                                              *)
(***************************************************************************)
MaxStackCalls == 2
STACK_DELAY == 1000                 \* delay=1.0, in milliseconds
DEFAULT_BACKOFF_MULTIPLIER == 2     \* with_retry: backoff_multiplier = 2.0
DEFAULT_MAX_DELAY == 60000          \* with_retry: max_delay = 60.0, in milliseconds

stack_outcome_unexpected(r) == IF r.status = "returned" THEN "ok" ELSE "unexpected"

\* the operation's successive outcomes during one call; the stack's wrapper is a
\* RetryDecorator, which has no should_retry predicate
StackScripts == {script \in Scripts :
                    \A k \in 1..Len(script) : script[k] # "declined"}

\* CircuitBreaker.call as the decorator uses it, with expected_exception =
\* Exception: an error the retry wrapper let through because it is outside its
\* exceptions=(Exception,) is outside `except self.expected_exception` as well
\* and leaves the breaker untouched; the error of the last attempt (and the
\* TypeError of `raise None`) is an Exception
stack_outcome(r) ==
    CASE r.status = "returned" -> "ok"
      [] r.outcome.kind = "error" /\ r.script[r.outcome.of] = "fatal" -> "unexpected"
      [] OTHER -> "expected"

\* CircuitBreakerDecorator._execute_with_circuit_breaker up to the first
\* suspension: the admission check, then the call of the retry wrapper
StackCall ==
    /\ pc[1] = "idle"
    /\ rt.status = "idle"
    /\ calls < MaxStackCalls
    /\ LET a == admission(cb, now)
       IN  /\ cb' = a.breaker
           /\ calls' = calls + 1
           /\ IF a.admitted
              THEN /\ pc' = [pc EXCEPT ![1] = "running"]
                   /\ result' = [result EXCEPT ![1] = "pending"]
                   /\ admit' = [admit EXCEPT ![1] = a.breaker.state]
                   /\ invocations' = invocations + 1
                   /\ \E script \in StackScripts :
                         rt' = NewRetry(rt.max_attempts, rt.delay,
                                        rt.backoff_multiplier, rt.max_delay,
                                        rt.jitter, script)
              ELSE /\ result' = [result EXCEPT ![1] = "rejected"]
                   /\ UNCHANGED <<pc, admit, invocations, rt>>
    /\ UNCHANGED <<now, consec_failures, consec_successes, fb, hy, ch, oa, mgr, ac, ly>>

\* the retry wrapper has returned or raised: CircuitBreaker.call records the
\* outcome and the decorator passes it on
StackReturn ==
    /\ pc[1] = "running"
    /\ RetryDone
    /\ cb' = record_outcome(cb, stack_outcome(rt), now)
    /\ pc' = [pc EXCEPT ![1] = "idle"]
    /\ result' = [result EXCEPT ![1] = ResultOf(stack_outcome(rt))]
    /\ admit' = [admit EXCEPT ![1] = "none"]
    /\ rt' = [rt EXCEPT !.status = "idle", !.script = << >>, !.slept = << >>]
    /\ UNCHANGED <<now, calls, invocations, consec_failures, consec_successes,
                   fb, hy, ch, oa, mgr, ac, ly>>

\* with_retry(max_attempts, delay=1.0, exceptions=(Exception,)) of the stack, not
\* yet called: backoff_multiplier, max_delay and jitter keep the defaults of
\* with_retry (2.0, 60.0 s, True); the stack sets max_attempts = 3
StackRetryInit ==
    rt \in {[NewRetry(m, STACK_DELAY, DEFAULT_BACKOFF_MULTIPLIER, DEFAULT_MAX_DELAY,
                      TRUE, << >>) EXCEPT !.status = "idle"] :
               m \in 0..MaxAttempts}

InitStack ==
    /\ BreakerInit
    /\ StackRetryInit
    /\ fb = Idle
    /\ hy = Idle
    /\ ch = Idle
    /\ oa = Idle
    /\ mgr = Idle
    /\ ac = Idle
    /\ ly = Idle

NextStack ==
    \/ StackCall
    \/ RetryStart
    \/ RetryFuncDone
    \/ RetryWake
    \/ StackReturn
    \/ Tick

SpecStack == InitStack /\ [][NextStack]_vars

(***************************************************************************)
(* Properties of the decorator stack.                                      *)
(***************************************************************************)
\* the operation raises a retried error on each of the max_attempts attempts
FailsEveryAttempt(r) ==
    /\ Len(r.script) >= r.max_attempts
    /\ \A k \in 1..r.max_attempts : is_retried(r, r.script[k])

\* C17: with the breaker composed outward of retry, one call into the breaker
\* layer whose operation fails on every attempt invokes the operation exactly
\* max_attempts times and increases the breaker's failure_count by exactly 1.
C17_BreakerSeesOneFailure ==
    [][(pc[1] = "running" /\ pc'[1] = "idle" /\ FailsEveryAttempt(rt))
        => /\ rt.invocations = rt.max_attempts
           /\ invocations' = invocations
           /\ result'[1] = "error"
           /\ cb'.failure_count = cb.failure_count + 1]_vars

\* the first call through the stack failed on each of its three attempts
C17_Witness ==
    /\ calls = 1
    /\ result[1] = "error"
    /\ rt.status = "idle"
    /\ rt.max_attempts = 3
    /\ rt.invocations = 3
    /\ rt.last_exception = 3
    /\ cb.failure_count = 1

(***************************************************************************)
(* circuit_breaker/openai_circuit_breaker.py: OpenAICircuitBreaker         *)
(*                                                                         *)
(* The subclass inherits CircuitBreaker.call, with expected_exception =    *)
(* Exception, and overrides _should_attempt_reset, _on_success and _reset. *)
(* call_openai wraps self.call in a try whose except clauses run after     *)
(* CircuitBreaker.call has already recorded the error and re-raised it.    *)
(* An error is its class and its `code` attribute; the except clauses are  *)
(* tried in the order RateLimitError, APITimeoutError, APIError, Exception *)
(* (in the openai package RateLimitError and APITimeoutError are           *)
(* subclasses of APIError).  One call_openai at a time is in progress.     *)
(***************************************************************************)
MaxOpenAICalls == 3
MaxRateLimitThreshold == 2

RateLimitError == "RateLimitError"
APITimeoutError == "APITimeoutError"
APIError == "APIError"
PlainException == "Exception"

NoCode == "none"
BillingCodes == {"insufficient_quota", "billing_hard_limit_reached"}

Err(cls, code) == [cls |-> cls, code |-> code]
NoError == Err("none", NoCode)

\* "Circuit breaker is OPEN", raised by CircuitBreaker.call
RejectionError == Err(PlainException, NoCode)

\* the errors the OpenAI function raises
OpenAIErrors ==
    {Err(RateLimitError, "rate_limit_exceeded"),
     Err(RateLimitError, "insufficient_quota"),
     Err(APITimeoutError, NoCode),
     Err(APIError, "insufficient_quota"),
     Err(APIError, "billing_hard_limit_reached"),
     Err(APIError, "server_error"),
     Err(PlainException, NoCode)}

\* OpenAICircuitBreaker.__init__
NewOpenAIBreaker(ft, rto, st, rlt) ==
    [failure_threshold |-> ft, recovery_timeout |-> rto, success_threshold |-> st,
     failure_count |-> 0, success_count |-> 0, last_failure_time |-> NoTime,
     state |-> CLOSED,
     rate_limit_threshold |-> rlt, rate_limit_count |-> 0,
     last_rate_limit_time |-> NoTime]

\* OpenAICircuitBreaker._should_attempt_reset
openai_should_attempt_reset(b, t) ==
    IF b.state # OPEN THEN FALSE
    ELSE IF b.rate_limit_count > 0
         THEN should_attempt_reset(b, t)
              /\ b.rate_limit_count < b.rate_limit_threshold
         ELSE should_attempt_reset(b, t)

\* OpenAICircuitBreaker._reset
openai_reset(b) ==
    [reset(b) EXCEPT !.rate_limit_count = 0, !.last_rate_limit_time = NoTime]

\* OpenAICircuitBreaker._on_success: CircuitBreaker._on_success with the
\* overridden _reset, then the rate limit counter is cleared
openai_on_success(b) ==
    LET b1 == IF b.state = HALF_OPEN
              THEN LET b2 == [b EXCEPT !.success_count = b.success_count + 1]
                   IN  IF b2.success_count >= b2.success_threshold
                       THEN openai_reset(b2) ELSE b2
              ELSE [b EXCEPT !.failure_count = 0]
    IN  [b1 EXCEPT !.rate_limit_count = 0]

\* CircuitBreaker.call, the block under the lock, with the overridden
\* _should_attempt_reset
openai_admission(b, t) ==
    IF b.state = OPEN
    THEN IF openai_should_attempt_reset(b, t)
         THEN [breaker |-> [b EXCEPT !.state = HALF_OPEN], admitted |-> TRUE]
         ELSE [breaker |-> b, admitted |-> FALSE]
    ELSE [breaker |-> b, admitted |-> TRUE]

\* OpenAICircuitBreaker._handle_rate_limit_error
handle_rate_limit_error(b) ==
    LET b1 == [b EXCEPT !.rate_limit_count = b.rate_limit_count + 1]
    IN  IF b1.rate_limit_count >= b1.rate_limit_threshold
        THEN [b1 EXCEPT !.state = OPEN]
        ELSE b1

\* OpenAICircuitBreaker._handle_api_error
handle_api_error(b, e, t) ==
    IF e.code \in BillingCodes
    THEN [b EXCEPT !.state = OPEN]
    ELSE on_failure(b, t)

\* call_openai: the except clauses, in their order
handle_error(b, e, t) ==
    CASE e.cls = RateLimitError -> handle_rate_limit_error(b)
      [] e.cls = APITimeoutError -> on_failure(b, t)
      [] e.cls = APIError -> handle_api_error(b, e, t)
      [] OTHER -> on_failure(b, t)

\* call_openai when the OpenAI function raises e: CircuitBreaker.call records the
\* failure and re-raises, then the matching except clause of call_openai runs
openai_on_error(b, e, t) == handle_error(on_failure(b, t), e, t)

\* the OpenAICircuitBreaker and the locals of the call_openai in progress
NewOpenAI(b) ==
    [b |-> b, pc |-> "idle", result |-> "none", last_error |-> NoError,
     calls |-> 0, invocations |-> 0]

\* call_openai up to the first suspension: the admission check of
\* CircuitBreaker.call; its rejection is an Exception raised into call_openai
OpenAICallBegin ==
    /\ oa.pc = "idle"
    /\ oa.calls < MaxOpenAICalls
    /\ LET a == openai_admission(oa.b, now)
       IN  oa' = IF a.admitted
                 THEN [oa EXCEPT !.b = a.breaker, !.pc = "running",
                                 !.result = "pending", !.last_error = NoError,
                                 !.calls = oa.calls + 1,
                                 !.invocations = oa.invocations + 1]
                 ELSE [oa EXCEPT !.b = handle_error(a.breaker, RejectionError, now),
                                 !.result = "rejected",
                                 !.last_error = RejectionError,
                                 !.calls = oa.calls + 1]
    /\ UNCHANGED <<cb, pc, result, admit, calls, invocations,
                   consec_failures, consec_successes, now, rt, fb, hy, ch, mgr, ac, ly>>

\* the OpenAI function returns
OpenAICallReturns ==
    /\ oa.pc = "running"
    /\ oa' = [oa EXCEPT !.b = openai_on_success(oa.b), !.pc = "idle",
                        !.result = "value"]
    /\ UNCHANGED <<cb, pc, result, admit, calls, invocations,
                   consec_failures, consec_successes, now, rt, fb, hy, ch, mgr, ac, ly>>

\* the OpenAI function raises e
OpenAICallRaises(e) ==
    /\ oa.pc = "running"
    /\ oa' = [oa EXCEPT !.b = openai_on_error(oa.b, e, now), !.pc = "idle",
                        !.result = "error", !.last_error = e]
    /\ UNCHANGED <<cb, pc, result, admit, calls, invocations,
                   consec_failures, consec_successes, now, rt, fb, hy, ch, mgr, ac, ly>>

OpenAIInit ==
    oa \in {NewOpenAI(NewOpenAIBreaker(ft, rto, st, rlt)) :
               ft \in 1..MaxThreshold, rto \in 1..MaxTimeout,
               st \in 1..MaxSuccessThreshold, rlt \in 1..MaxRateLimitThreshold}

InitOpenAI ==
    /\ BreakerUnused
    /\ rt = Idle
    /\ fb = Idle
    /\ hy = Idle
    /\ ch = Idle
    /\ OpenAIInit
    /\ mgr = Idle
    /\ ac = Idle
    /\ ly = Idle

NextOpenAI ==
    \/ OpenAICallBegin
    \/ OpenAICallReturns
    \/ \E e \in OpenAIErrors : OpenAICallRaises(e)
    \/ Tick

SpecOpenAI == InitOpenAI /\ [][NextOpenAI]_vars

(***************************************************************************)
(* Properties of the OpenAI circuit breaker.                               *)
(***************************************************************************)
\* the OpenAI function raised in this step
OpenAIRaised == oa.pc = "running" /\ oa'.pc = "idle" /\ oa'.result = "error"

\* C18: the call on which rate_limit_count reaches rate_limit_threshold leaves
\* the breaker OPEN even when failure_count is below failure_threshold, and a
\* single quota/billing error (code insufficient_quota or
\* billing_hard_limit_reached) leaves a CLOSED breaker OPEN on its first
\* occurrence.
C18_RateLimitAndBillingOpen ==
    [][/\ (/\ oa.b.rate_limit_count < oa.b.rate_limit_threshold
           /\ oa'.b.rate_limit_count >= oa.b.rate_limit_threshold)
          => oa'.b.state = OPEN
       /\ (/\ OpenAIRaised
           /\ oa'.last_error.code \in BillingCodes
           /\ oa.b.state = CLOSED)
          => oa'.b.state = OPEN]_vars

\* C22: for an OpenAI breaker that is CLOSED with failure_count = 0, one call
\* through call_openai whose function raises an error leaves failure_count
\* equal to 1.
C22_OneErrorCountsOnce ==
    [][(/\ OpenAIRaised
        /\ oa.b.state = CLOSED
        /\ oa.b.failure_count = 0)
       => oa'.b.failure_count = 1]_vars

\* call_openai was rejected in this step because the breaker is OPEN
OpenAIRejected ==
    oa.pc = "idle" /\ oa'.calls = oa.calls + 1 /\ oa'.result = "rejected"

\* C24: a call through call_openai that is rejected because the breaker is OPEN
\* does not count as a failure: failure_count and last_failure_time are the
\* same after the rejection as before it.
C24_OpenAIRejectionNotCounted ==
    [][OpenAIRejected
       => /\ oa'.b.failure_count = oa.b.failure_count
          /\ oa'.b.last_failure_time = oa.b.last_failure_time]_vars

\* C25: an OpenAI breaker that is OPEN with rate_limit_count at or above
\* rate_limit_threshold recovers without a reset: once recovery_timeout has
\* elapsed since last_failure_time, the next call through call_openai is
\* admitted as a probe and the breaker moves to HALF_OPEN.
C25_RateLimitOpenRecovers ==
    [][(/\ oa.pc = "idle"
        /\ oa'.calls = oa.calls + 1
        /\ oa.b.state = OPEN
        /\ oa.b.rate_limit_count >= oa.b.rate_limit_threshold
        /\ should_attempt_reset(oa.b, now))
       => /\ oa'.pc = "running"
          /\ oa'.b.state = HALF_OPEN]_vars

(***************************************************************************)
(* decorators/circuit_breaker_decorator.py: OpenAICircuitBreakerDecorator  *)
(*                                                                         *)
(* The decorator keeps only the keyword arguments it was built with; the   *)
(* breaker is a local of _execute_with_openai_circuit_breaker.  The record *)
(* holds the breaker of the call in progress (or of the last call) and, as *)
(* history, the number of consecutive failing calls of the decorated       *)
(* function and the time of the last of them.  One call at a time is in    *)
(* progress.                                                               *)
(***************************************************************************)
\* OpenAICircuitBreakerDecorator.__init__ and the locals of one call
NewOpenAIDecorator(kw) ==
    [kwargs |-> kw,
     b |-> NewOpenAIBreaker(kw.failure_threshold, kw.recovery_timeout,
                            kw.success_threshold, kw.rate_limit_threshold),
     pc |-> "idle", result |-> "none", last_error |-> NoError,
     calls |-> 0, invocations |-> 0, failed_calls |-> 0, failed_at |-> NoTime]

\* _execute_with_openai_circuit_breaker: the breaker call_openai runs on
execution_breaker(d) ==
    NewOpenAIBreaker(d.kwargs.failure_threshold, d.kwargs.recovery_timeout,
                     d.kwargs.success_threshold, d.kwargs.rate_limit_threshold)

\* the decorated function is called: the breaker is obtained and call_openai
\* runs up to the first suspension
DecoratedCallBegin ==
    /\ oa.pc = "idle"
    /\ oa.calls < MaxOpenAICalls
    /\ LET a == openai_admission(execution_breaker(oa), now)
       IN  oa' = IF a.admitted
                 THEN [oa EXCEPT !.b = a.breaker, !.pc = "running",
                                 !.result = "pending", !.last_error = NoError,
                                 !.calls = oa.calls + 1,
                                 !.invocations = oa.invocations + 1]
                 ELSE [oa EXCEPT !.b = handle_error(a.breaker, RejectionError, now),
                                 !.result = "rejected",
                                 !.last_error = RejectionError,
                                 !.calls = oa.calls + 1]
    /\ UNCHANGED <<cb, pc, result, admit, calls, invocations,
                   consec_failures, consec_successes, now, rt, fb, hy, ch, mgr, ac, ly>>

\* the decorated function returns
DecoratedCallReturns ==
    /\ oa.pc = "running"
    /\ oa' = [oa EXCEPT !.b = openai_on_success(oa.b), !.pc = "idle",
                        !.result = "value", !.failed_calls = 0]
    /\ UNCHANGED <<cb, pc, result, admit, calls, invocations,
                   consec_failures, consec_successes, now, rt, fb, hy, ch, mgr, ac, ly>>

\* the decorated function raises e
DecoratedCallRaises(e) ==
    /\ oa.pc = "running"
    /\ oa' = [oa EXCEPT !.b = openai_on_error(oa.b, e, now), !.pc = "idle",
                        !.result = "error", !.last_error = e,
                        !.failed_calls = oa.failed_calls + 1,
                        !.failed_at = now]
    /\ UNCHANGED <<cb, pc, result, admit, calls, invocations,
                   consec_failures, consec_successes, now, rt, fb, hy, ch, mgr, ac, ly>>

OpenAIDecoratorInit ==
    oa \in {NewOpenAIDecorator([failure_threshold |-> ft, recovery_timeout |-> rto,
                                success_threshold |-> st,
                                rate_limit_threshold |-> rlt]) :
               ft \in 1..MaxThreshold, rto \in 1..MaxTimeout,
               st \in 1..MaxSuccessThreshold, rlt \in 1..MaxRateLimitThreshold}

InitOpenAIDecorator ==
    /\ BreakerUnused
    /\ rt = Idle
    /\ fb = Idle
    /\ hy = Idle
    /\ ch = Idle
    /\ OpenAIDecoratorInit
    /\ mgr = Idle
    /\ ac = Idle
    /\ ly = Idle

NextOpenAIDecorator ==
    \/ DecoratedCallBegin
    \/ DecoratedCallReturns
    \/ \E e \in OpenAIErrors : DecoratedCallRaises(e)
    \/ Tick

SpecOpenAIDecorator == InitOpenAIDecorator /\ [][NextOpenAIDecorator]_vars

\* C33: for a function decorated with with_openai_circuit_breaker the breaker
\* state persists across calls: after failure_threshold consecutive failing
\* calls, the next call made before the recovery timeout is rejected and the
\* function is not invoked.
C33_DecoratedBreakerPersists ==
    [][(/\ oa.pc = "idle"
        /\ oa'.calls = oa.calls + 1
        /\ oa.failed_calls >= oa.kwargs.failure_threshold
        /\ now - oa.failed_at < oa.kwargs.recovery_timeout)
       => /\ oa'.result = "rejected"
          /\ oa'.invocations = oa.invocations]_vars

(***************************************************************************)
(* circuit_breaker/circuit_breaker.py: CircuitBreakerManager               *)
(*                                                                         *)
(* The registry maps a service name to a CircuitBreaker object.  Objects   *)
(* are told apart by the order of their construction: `id` is the number   *)
(* of CircuitBreaker objects constructed up to and including this one.     *)
(* get_circuit_breaker and reset_all contain no await and run as one step; *)
(* call_with_circuit_breaker suspends inside the wrapped function, where   *)
(* the other operations interleave.  One call at a time is in progress.    *)
(***************************************************************************)
NumServices == 2
MaxManagerOps == 4

ServiceNames == 1..NumServices

DEFAULT_FAILURE_THRESHOLD == 5
DEFAULT_RECOVERY_TIMEOUT == 60
DEFAULT_SUCCESS_THRESHOLD == 2

\* CircuitBreaker(): the defaults of CircuitBreaker.__init__
DefaultKwargs == [failure_threshold |-> DEFAULT_FAILURE_THRESHOLD,
                  recovery_timeout |-> DEFAULT_RECOVERY_TIMEOUT,
                  success_threshold |-> DEFAULT_SUCCESS_THRESHOLD]

\* the keyword arguments callers of get_circuit_breaker pass
Kwargs == {DefaultKwargs}
          \cup {[failure_threshold |-> ft, recovery_timeout |-> 1,
                 success_threshold |-> 1] : ft \in 1..2}

\* service_name not in self.circuit_breakers
NoBreaker == [id |-> 0, b |-> NewBreaker(0, 0, 0)]

\* CircuitBreakerManager.__init__ and the bookkeeping of the operations
NewManager ==
    [circuit_breakers |-> [n \in ServiceNames |-> NoBreaker],
     constructed |-> 0,
     first |-> [n \in ServiceNames |-> 0],
     pc |-> "idle", service |-> 0, result |-> "none",
     last_op |-> "none", looked_up |-> 0, returned |-> 0, ops |-> 0]

get_circuit_breaker_always_new(m, name, kw) ==
    LET made == [id |-> m.constructed + 1,
                 b |-> NewBreaker(kw.failure_threshold, kw.recovery_timeout,
                                  kw.success_threshold)]
    IN  [m EXCEPT !.circuit_breakers[name] = made,
                  !.constructed = m.constructed + 1,
                  !.first[name] = IF m.first[name] = 0 THEN made.id
                                  ELSE m.first[name],
                  !.looked_up = name, !.returned = made.id]

\* CircuitBreakerManager.get_circuit_breaker
get_circuit_breaker(m, name, kw) ==
    IF m.circuit_breakers[name] = NoBreaker
    THEN LET made == [id |-> m.constructed + 1,
                      b |-> NewBreaker(kw.failure_threshold, kw.recovery_timeout,
                                       kw.success_threshold)]
         IN  [m EXCEPT !.circuit_breakers[name] = made,
                       !.constructed = m.constructed + 1,
                       !.first[name] = made.id,
                       !.looked_up = name, !.returned = made.id]
    ELSE [m EXCEPT !.looked_up = name,
                   !.returned = m.circuit_breakers[name].id]

\* CircuitBreakerManager.reset_all
reset_all(m) ==
    [m EXCEPT !.circuit_breakers =
        [n \in ServiceNames |->
            IF m.circuit_breakers[n] = NoBreaker THEN NoBreaker
            ELSE [m.circuit_breakers[n] EXCEPT !.b = reset(m.circuit_breakers[n].b)]]]

\* a caller looks a breaker up (the decorator passes its configuration)
ManagerGet(name, kw) ==
    /\ mgr.ops < MaxManagerOps
    /\ mgr' = [get_circuit_breaker(mgr, name, kw) EXCEPT
                  !.last_op = "get", !.ops = mgr.ops + 1]
    /\ UNCHANGED <<cbVars, rt, fb, hy, ch, oa, ac, ly>>

\* call_with_circuit_breaker up to the first suspension: the lookup, then the
\* admission check of CircuitBreaker.call
ManagerCallBegin(name) ==
    /\ mgr.pc = "idle"
    /\ mgr.ops < MaxManagerOps
    /\ LET m1 == get_circuit_breaker(mgr, name, DefaultKwargs)
           a == admission(m1.circuit_breakers[name].b, now)
       IN  mgr' = [m1 EXCEPT !.circuit_breakers[name].b = a.breaker,
                             !.pc = IF a.admitted THEN "running" ELSE "idle",
                             !.service = name,
                             !.result = IF a.admitted THEN "pending" ELSE "rejected",
                             !.last_op = "call", !.ops = mgr.ops + 1]
    /\ UNCHANGED <<cbVars, rt, fb, hy, ch, oa, ac, ly>>

\* the wrapped function completes: CircuitBreaker.call records the outcome on
\* the breaker it was called on
ManagerCallReturn(outcome) ==
    /\ mgr.pc = "running"
    /\ mgr' = [mgr EXCEPT
                  !.circuit_breakers[mgr.service].b =
                      record_outcome(mgr.circuit_breakers[mgr.service].b,
                                     outcome, now),
                  !.pc = "idle", !.result = ResultOf(outcome),
                  !.last_op = "return"]
    /\ UNCHANGED <<cbVars, rt, fb, hy, ch, oa, ac, ly>>

ManagerResetAll ==
    /\ mgr.ops < MaxManagerOps
    /\ mgr' = [reset_all(mgr) EXCEPT !.last_op = "reset_all", !.ops = mgr.ops + 1]
    /\ UNCHANGED <<cbVars, rt, fb, hy, ch, oa, ac, ly>>

InitManager ==
    /\ BreakerUnused
    /\ rt = Idle
    /\ fb = Idle
    /\ hy = Idle
    /\ ch = Idle
    /\ oa = Idle
    /\ mgr = NewManager
    /\ ac = Idle
    /\ ly = Idle

NextManager ==
    \/ \E name \in ServiceNames : \E kw \in Kwargs : ManagerGet(name, kw)
    \/ \E name \in ServiceNames : ManagerCallBegin(name)
    \/ \E outcome \in Outcomes : ManagerCallReturn(outcome)
    \/ ManagerResetAll

SpecManager == InitManager /\ [][NextManager]_vars

(***************************************************************************)
(* Properties of the breaker registry.                                     *)
(***************************************************************************)
Registered(m, n) == m.circuit_breakers[n] # NoBreaker

\* C20: over any sequence of get_circuit_breaker, call_with_circuit_breaker and
\* reset_all, every lookup of a name after its first creation returns the
\* breaker created first for it, and no entry is ever removed from the
\* registry: reset_all returns every breaker to CLOSED with zero counters and
\* keeps all entries.
C20_RegistryKeepsInstances ==
    [][/\ \A n \in ServiceNames :
             Registered(mgr, n)
               => /\ Registered(mgr', n)
                  /\ mgr'.circuit_breakers[n].id = mgr.circuit_breakers[n].id
       /\ mgr'.last_op \in {"get", "call"}
             => /\ Registered(mgr', mgr'.looked_up)
                /\ mgr'.returned = mgr'.circuit_breakers[mgr'.looked_up].id
                /\ mgr'.returned = mgr'.first[mgr'.looked_up]
       /\ mgr'.last_op = "reset_all"
             => \A n \in ServiceNames :
                   /\ Registered(mgr', n) <=> Registered(mgr, n)
                   /\ Registered(mgr, n)
                         => /\ mgr'.circuit_breakers[n].b.state = CLOSED
                            /\ mgr'.circuit_breakers[n].b.failure_count = 0
                            /\ mgr'.circuit_breakers[n].b.success_count = 0]_vars

\* service 1, created with failure_threshold = 1, was opened by a failing call
\* and reset; the lookup that followed returned the object created first
C20_Witness ==
    /\ mgr.ops = 4
    /\ mgr.last_op = "get"
    /\ mgr.looked_up = 1
    /\ mgr.returned = 1
    /\ mgr.first[1] = 1
    /\ mgr.result = "error"
    /\ mgr.circuit_breakers[1].b.failure_threshold = 1
    /\ mgr.circuit_breakers[1].b.state = CLOSED
    /\ mgr.circuit_breakers[1].b.last_failure_time = NoTime
(***************************************************************************)
(* strategies/analysis_strategy.py: AnalysisContext                        *)
(*                                                                         *)
(* One AnalysisContext is shared by the requests of AIServiceManager       *)
(* (services/ai_service_manager.py): each request calls set_strategy and   *)
(* then analyze_symptoms or process_medical_text, which suspends in the    *)
(* strategy's call; when the call returns, the result is annotated from    *)
(* self._strategy as it is then.  A request record keeps, as history, the  *)
(* strategy whose method the request invoked.  The context is made by      *)
(* ServiceFactory.create_analysis_context (factories/service_factory.py).  *)
(***************************************************************************)
NumRequests == 2

Requests == 1..NumRequests

FALLBACK == "fallback"
HYBRID == "hybrid"
FALLBACK_CONFIDENCE == 80       \* FallbackStrategy.get_confidence_score: 0.8, in hundredths

\* a strategy object: its get_strategy_name() and, for the local model strategy,
\* whether its symptom_model was loaded
Strategy(name, loaded) == [name |-> name, loaded |-> loaded]

\* the strategies _select_strategy hands to the context: the entries 'primary'
\* (openai, fallback or rule_based, by environment and key), 'fallback',
\* 'openai', 'local_model' and 'rule_based' of self.strategies; a preference
\* that is no entry ('hybrid') gives the primary strategy
ContextStrategies ==
    {Strategy(OPENAI, TRUE), Strategy(RULE_BASED, TRUE), Strategy(FALLBACK, TRUE)}
      \cup {Strategy(LOCAL_MODEL, loaded) : loaded \in BOOLEAN}

\* self._strategy.get_confidence_score(), in hundredths
strategy_confidence(s) ==
    CASE s.name = FALLBACK -> FALLBACK_CONFIDENCE
      [] s.name = HYBRID -> HYBRID_CONFIDENCE
      [] OTHER -> 10 * get_confidence_score(s.name, s.loaded)

NoStrategy == Strategy("none", FALSE)
NoRequest == [pc |-> "idle", op |-> "none", called |-> NoStrategy,
              strategy_used |-> "none", strategy_confidence |-> 0]

\* AnalysisContext.__init__
NewContext(s) ==
    [created |-> TRUE, strategy |-> s, req |-> [r \in Requests |-> NoRequest]]

\* no context: create_analysis_context raised
NoContext ==
    [created |-> FALSE, strategy |-> NoStrategy, req |-> [r \in Requests |-> NoRequest]]

\* StrategyType, and None for a call without a strategy type
StrategyTypes == {OPENAI, LOCAL_MODEL, RULE_BASED, HYBRID, FALLBACK}
NoType == "None"

\* StrategyFactory.create_strategy: the strategy object of the type; the openai
\* strategy cannot be created without a key (NoStrategy: ValueError)
create_strategy(type, key, loaded) ==
    CASE type = OPENAI -> IF key THEN Strategy(OPENAI, TRUE) ELSE NoStrategy
      [] type = LOCAL_MODEL -> Strategy(LOCAL_MODEL, loaded)
      [] OTHER -> Strategy(type, TRUE)

\* ServiceFactory.create_analysis_context: the function's own import names
\* strategies.strategy_factory, which the repository does not hold (the factory
\* is factories/strategy_factory.py), so whether it resolves is the
\* deployment's; when it does not, or the strategy cannot be created, the call
\* raises and there is no context.  Without a strategy type the type is openai
\* when a key is configured and the rule engine otherwise.
create_analysis_context(strategy_type, key, loaded, resolves) ==
    LET type == IF strategy_type = NoType
                THEN IF key THEN OPENAI ELSE RULE_BASED
                ELSE strategy_type
        strategy == create_strategy(type, key, loaded)
    IN  IF ~resolves \/ strategy = NoStrategy THEN NoContext
        ELSE NewContext(strategy)

\* AnalysisContext.set_strategy
set_strategy(a, s) == [a EXCEPT !.strategy = s]

\* analyze_symptoms / process_medical_text after the strategy's call returned:
\* result["strategy_used"] and result["strategy_confidence"] are read from
\* self._strategy
context_annotate(a, r) ==
    [a EXCEPT !.req[r].pc = "returned",
              !.req[r].strategy_used = a.strategy.name,
              !.req[r].strategy_confidence = strategy_confidence(a.strategy)]

\* AIServiceManager.analyze_symptoms / process_medical_text: set_strategy, then
\* the context's method up to the suspension in self._strategy's call; when the
\* context could not be created, initialize has raised and the request raises
ContextRequest(r, s, op) ==
    /\ ac.req[r].pc # "calling"
    /\ LET a == set_strategy(ac, s)
       IN  ac' = IF ac.created
                 THEN [a EXCEPT !.req[r] = [pc |-> "calling", op |-> op,
                                            called |-> a.strategy,
                                            strategy_used |-> "none",
                                            strategy_confidence |-> 0]]
                 ELSE [ac EXCEPT !.req[r] = [NoRequest EXCEPT !.pc = "raised",
                                                              !.op = op]]
    /\ UNCHANGED <<cbVars, rt, fb, hy, ch, oa, mgr, ly>>

\* the strategy's call of request r returns
ContextStrategyReturns(r) ==
    /\ ac.req[r].pc = "calling"
    /\ ac' = context_annotate(ac, r)
    /\ UNCHANGED <<cbVars, rt, fb, hy, ch, oa, mgr, ly>>

\* the strategy's call of request r raises: the error is logged and re-raised
ContextStrategyRaises(r) ==
    /\ ac.req[r].pc = "calling"
    /\ ac' = [ac EXCEPT !.req[r].pc = "raised"]
    /\ UNCHANGED <<cbVars, rt, fb, hy, ch, oa, mgr, ly>>

\* the context create_analysis_context has made, for every strategy type it
\* can be called with and every configuration
ContextInit ==
    ac \in {create_analysis_context(t, key, loaded, resolves) :
               t \in StrategyTypes \cup {NoType},
               key \in BOOLEAN, loaded \in BOOLEAN, resolves \in BOOLEAN}

InitContext ==
    /\ BreakerUnused
    /\ rt = Idle
    /\ fb = Idle
    /\ hy = Idle
    /\ ch = Idle
    /\ oa = Idle
    /\ mgr = Idle
    /\ ContextInit
    /\ ly = Idle

NextContext ==
    \/ \E r \in Requests : \E s \in ContextStrategies : \E op \in Operations :
          ContextRequest(r, s, op)
    \/ \E r \in Requests : ContextStrategyReturns(r)
    \/ \E r \in Requests : ContextStrategyRaises(r)

SpecContext == InitContext /\ [][NextContext]_vars

\* C29: when concurrent requests share one AnalysisContext, the strategy_used
\* and strategy_confidence annotation of each returned result names the
\* strategy whose call produced the result, even if another request called
\* set_strategy while the call was suspended.
C29_AnnotationNamesCaller ==
    \A r \in Requests :
        ac.req[r].pc = "returned"
          => /\ ac.req[r].strategy_used = ac.req[r].called.name
             /\ ac.req[r].strategy_confidence
                   = strategy_confidence(ac.req[r].called)

(***************************************************************************)
(* decorators/metrics_decorator.py: MetricsDecorator                       *)
(* decorators/logging_decorator.py: LoggingDecorator, AuditLoggingDecorator*)
(*                                                                         *)
(* The three wrappers have the same shape: __call__ returns async_wrapper  *)
(* for a coroutine function and sync_wrapper otherwise, and both wrappers  *)
(* call the `async def` method that records and executes (_collect_metrics,*)
(* _log_execution, _audit_execution); only async_wrapper awaits it.  A     *)
(* call passes keyword arguments, each name of KwargNames with a value or  *)
(* Missing.  The operation returns a value or raises an error whose        *)
(* message is fixed or quotes the value of one keyword argument.  The      *)
(* record is what the wrapper logs when the operation completes.  One call *)
(* at a time is in progress.                                               *)
(***************************************************************************)
MaxLayerCalls == 2

Layers == {"metrics", "logging", "audit"}
KwargNames == {"patient_id", "ssn"}
Missing == "missing"
KwargValues == {"a", "b"}
CallKwargs == [KwargNames -> KwargValues \cup {Missing}]
ReturnValues == {"r1", "r2"}
REDACTED == "[REDACTED]"

\* an error of the operation: its type and the keyword argument its message
\* quotes ("none": a fixed message)
OpErr(type, quotes) == [type |-> type, quotes |-> quotes]
NoOpErr == OpErr("none", "none")
OpErrors == {OpErr("ValueError", q) : q \in {"none"} \cup KwargNames}

\* str(e): the text and the value quoted in it
Message(e, kw) ==
    IF e.quotes = "none" THEN [quotes |-> "none", value |-> Missing]
    ELSE [quotes |-> e.quotes, value |-> kw[e.quotes]]
NoMessage == [quotes |-> "none", value |-> Missing]

\* what a call of the wrapper gave its caller
Gave(kind, value, error) == [kind |-> kind, value |-> value, error |-> error]
Nothing == Gave("none", "", NoOpErr)
\* the coroutine object of the recording method, not yet run
Coroutine == Gave("coroutine", "", NoOpErr)

NoKwargs == [n \in KwargNames |-> Missing]
\* the counters a metrics record carries (_build_metrics_data)
Counts(c, s, f) == [call_count |-> c, success_count |-> s, failure_count |-> f]
NoCounts == Counts(0, 0, 0)

\* one logger call: its message (event), level and keyword data; a key the
\* layer does not log holds "none", NoKwargs, {}, NoMessage or NoCounts
Record(event, level, status, kwargs, keys, error, error_type, counts) ==
    [event |-> event, level |-> level, status |-> status, kwargs |-> kwargs,
     kwargs_keys |-> keys, error |-> error, error_type |-> error_type,
     counts |-> counts]
NoRecord == Record("none", "none", "none", NoKwargs, {}, NoMessage, "none", NoCounts)

\* AuditLoggingDecorator._sanitize_data
sanitize_data(sensitive_fields, data) ==
    [n \in KwargNames |->
        IF n \in sensitive_fields /\ data[n] # Missing THEN REDACTED ELSE data[n]]

\* the keyword arguments in the record: the audit wrapper logs the sanitized
\* kwargs, the logging wrapper only their names, the metrics wrapper none
record_kwargs(l, kw) ==
    IF l.layer = "audit" THEN sanitize_data(l.sensitive_fields, kw) ELSE NoKwargs

\* LoggingDecorator._log_execution with log_args: "kwargs_keys" lists the names
\* of the keyword arguments given
kwargs_keys(l, kw) ==
    IF l.layer = "logging" THEN {n \in KwargNames : kw[n] # Missing} ELSE {}

\* LoggingDecorator._log_execution: the "Starting <function>" record written
\* before the function is executed; the other two layers log on completion only
start_record(l, kw) ==
    IF l.layer = "logging"
    THEN Record("Starting", "info", "none", NoKwargs, kwargs_keys(l, kw),
                NoMessage, "none", NoCounts)
    ELSE NoRecord

\* __init__ of the three decorators and the locals of one call
NewLayer(layer, is_async, sensitive_fields) ==
    [layer |-> layer, is_async |-> is_async, sensitive_fields |-> sensitive_fields,
     status |-> "idle", kwargs |-> NoKwargs, received |-> NoKwargs,
     op_count |-> 0, op_gave |-> Nothing, gave |-> Nothing,
     started |-> NoRecord, record |-> NoRecord,
     call_count |-> 0, success_count |-> 0, failure_count |-> 0, ncalls |-> 0]

\* async_wrapper: the recording method runs up to `await func(*args, **kwargs)`
async_wrapper(l, kw) ==
    [l EXCEPT !.status = "running", !.kwargs = kw, !.received = kw,
              !.op_count = 1, !.op_gave = Nothing, !.gave = Nothing,
              !.started = start_record(l, kw), !.record = NoRecord,
              !.call_count = IF l.layer = "metrics" THEN l.call_count + 1
                             ELSE l.call_count,
              !.ncalls = l.ncalls + 1]

\* sync_wrapper: `return self._collect_metrics(...)` (_log_execution,
\* _audit_execution) calls an `async def` without awaiting it: the caller is
\* given the coroutine object and nothing of the method's body has run
sync_wrapper(l, kw) ==
    [l EXCEPT !.status = "returned", !.kwargs = kw, !.received = NoKwargs,
              !.op_count = 0, !.op_gave = Nothing, !.gave = Coroutine,
              !.started = NoRecord, !.record = NoRecord,
              !.ncalls = l.ncalls + 1]

\* the record written after the operation returned: the audit wrapper logs
\* status "success" with the sanitized kwargs, the logging wrapper status
\* "success" with the names of the kwargs (log_result is off by default), the
\* metrics wrapper its counters
success_record(l) ==
    CASE l.layer = "audit" ->
            Record("Audit log - operation successful", "info", "success",
                   record_kwargs(l, l.kwargs), {}, NoMessage, "none", NoCounts)
      [] l.layer = "logging" ->
            Record("Completed", "info", "success", NoKwargs,
                   kwargs_keys(l, l.kwargs), NoMessage, "none", NoCounts)
      [] OTHER ->
            Record("Function metrics", "info", "none", NoKwargs, {}, NoMessage,
                   "none", Counts(l.call_count, l.success_count, l.failure_count))

\* the record written after the operation raised e: the audit wrapper logs
\* status "failed", str(e) and the type of e at level warning, the logging
\* wrapper status "error", str(e) and the type at level error, the metrics
\* wrapper its counters (str(e) goes to the custom metrics only, and there are
\* none by default)
failure_record(l, e) ==
    CASE l.layer = "audit" ->
            Record("Audit log - operation failed", "warning", "failed",
                   record_kwargs(l, l.kwargs), {}, Message(e, l.kwargs), e.type,
                   NoCounts)
      [] l.layer = "logging" ->
            Record("Failed", "error", "error", NoKwargs, kwargs_keys(l, l.kwargs),
                   Message(e, l.kwargs), e.type, NoCounts)
      [] OTHER ->
            Record("Function metrics", "info", "none", NoKwargs, {}, NoMessage,
                   "none", Counts(l.call_count, l.success_count, l.failure_count))

\* the recording method after the operation returned v
on_return(l, v) ==
    LET l1 == [l EXCEPT !.success_count =
                            IF l.layer = "metrics" THEN l.success_count + 1
                            ELSE l.success_count]
    IN  [l1 EXCEPT !.status = "returned",
                   !.op_gave = Gave("value", v, NoOpErr),
                   !.gave = Gave("value", v, NoOpErr),
                   !.record = success_record(l1)]

\* the recording method after the operation raised e (an Exception): the
\* failure is recorded and the error re-raised
on_raise(l, e) ==
    LET l1 == [l EXCEPT !.failure_count =
                            IF l.layer = "metrics" THEN l.failure_count + 1
                            ELSE l.failure_count]
    IN  [l1 EXCEPT !.status = "raised",
                   !.op_gave = Gave("error", "", e),
                   !.gave = Gave("error", "", e),
                   !.record = failure_record(l1, e)]

\* the decorated function is called with keyword arguments kw
LayerCall(kw) ==
    /\ ly.status \in {"idle", "returned", "raised"}
    /\ ly.ncalls < MaxLayerCalls
    /\ ly' = IF ly.is_async THEN async_wrapper(ly, kw) ELSE sync_wrapper(ly, kw)
    /\ UNCHANGED <<cbVars, rt, fb, hy, ch, oa, mgr, ac>>

\* the operation returns v
LayerFuncReturns(v) ==
    /\ ly.status = "running"
    /\ ly' = on_return(ly, v)
    /\ UNCHANGED <<cbVars, rt, fb, hy, ch, oa, mgr, ac>>

\* the operation raises e; its message can quote only an argument it was given
LayerFuncRaises(e) ==
    /\ ly.status = "running"
    /\ e.quotes # "none" => ly.kwargs[e.quotes] # Missing
    /\ ly' = on_raise(ly, e)
    /\ UNCHANGED <<cbVars, rt, fb, hy, ch, oa, mgr, ac>>

LayerInit ==
    ly \in {NewLayer(layer, is_async, {}) :
               layer \in Layers \ {"audit"}, is_async \in BOOLEAN}
           \cup {NewLayer("audit", is_async, sf) :
                    is_async \in BOOLEAN, sf \in SUBSET KwargNames}

InitLayer ==
    /\ BreakerUnused
    /\ rt = Idle
    /\ fb = Idle
    /\ hy = Idle
    /\ ch = Idle
    /\ oa = Idle
    /\ mgr = Idle
    /\ ac = Idle
    /\ LayerInit

NextLayer ==
    \/ \E kw \in CallKwargs : LayerCall(kw)
    \/ \E v \in ReturnValues : LayerFuncReturns(v)
    \/ \E e \in OpErrors : LayerFuncRaises(e)

SpecLayer == InitLayer /\ [][NextLayer]_vars

LayerCallDone == ly.status \in {"returned", "raised"}

\* C38: for every call through the audit wrapper, the audit record holds
\* "[REDACTED]" in place of the value of every keyword argument named in
\* sensitive_fields and nothing in it depends on those values (two calls that
\* differ only in them leave the same record), while the wrapped function
\* receives the original keyword arguments.
C38_AuditRedaction ==
    (ly.layer = "audit" /\ LayerCallDone)
      => /\ ly.record # NoRecord
         /\ \A n \in KwargNames :
               ly.record.kwargs[n] =
                  IF n \in ly.sensitive_fields /\ ly.kwargs[n] # Missing
                  THEN REDACTED ELSE ly.kwargs[n]
         /\ ly.record.error.quotes \notin ly.sensitive_fields
         /\ ly.received = ly.kwargs

\* the record of the call says that it failed: by its status in the audit
\* ("failed") and logging ("error") wrappers, by a failure_count that counts
\* this call in the metrics wrapper
RecordsFailure(l) ==
    /\ l.record # NoRecord
    /\ CASE l.layer = "audit" -> l.record.status = "failed"
         [] l.layer = "logging" -> l.record.status = "error"
         [] OTHER -> /\ l.failure_count >= 1
                     /\ l.record.counts.failure_count = l.failure_count

\* C39: the metrics, logging and audit wrappers are transparent: each call
\* invokes the operation exactly once, returns the operation's result when it
\* succeeds and raises the operation's error, after recording the failure, when
\* it fails.
C39_LayersTransparent ==
    LayerCallDone
      => /\ ly.op_count = 1
         /\ ly.op_gave.kind \in {"value", "error"}
         /\ ly.gave = ly.op_gave
         /\ (ly.op_gave.kind = "value") = (ly.status = "returned")
         /\ ly.status = "raised" => RecordsFailure(ly)

(***************************************************************************)
(* Further properties of the circuit breaker (specification Spec).         *)
(***************************************************************************)
\* caller c's wrapped function returns in this step
SuccessRecorded(c) == pc[c] = "running" /\ pc'[c] = "idle" /\ result'[c] = "value"

\* C23: for a breaker with failure_threshold = 3 and the default
\* success_threshold, after three failing calls have opened it and the recovery
\* timeout has elapsed, the first successful call returns its value and leaves
\* the breaker CLOSED with failure_count = 0.
C23_OneSuccessCloses ==
    [][(/\ cb.failure_threshold = 3
        /\ cb.success_threshold = DEFAULT_SUCCESS_THRESHOLD
        /\ cb.state = HALF_OPEN
        /\ cb.failure_count = 3
        /\ consec_successes = 0
        /\ \E c \in Callers : SuccessRecorded(c))
       => /\ cb'.state = CLOSED
          /\ cb'.failure_count = 0]_vars

\* C30: success_count > 0 only in HALF_OPEN: whenever the state is CLOSED or
\* OPEN, success_count = 0, under any interleaving of concurrent calls.
C30_SuccessCountOnlyHalfOpen ==
    cb.state \in {CLOSED, OPEN} => cb.success_count = 0

\* a probe succeeded in HALF_OPEN (success_count became 1), then a failure
\* re-opened the breaker
C30_Witness ==
    /\ cb.state = OPEN
    /\ cb.success_threshold = 2
    /\ consec_successes = 1
    /\ cb.success_count = 0

\* C27: self._lock is never held while a wrapped function executes: while one
\* caller's wrapped call is suspended, another caller's admission check and
\* another caller's outcome recording on the same breaker can run at once, so
\* a wrapped call that calls through the same breaker is not blocked by its
\* caller.
C27_LockFreeDuringCall ==
    \A c \in Callers :
        pc[c] = "running"
          => /\ cb.lock = Free
             /\ \A d \in Callers \ {c} :
                   /\ (pc[d] = "idle" /\ calls < MaxCalls) => ENABLED CallBegin(d)
                   /\ pc[d] = "running"
                        => \A o \in Outcomes : ENABLED CallReturn(d, o)

\* caller 1 was admitted in CLOSED and is still suspended in its function; the
\* failure of caller 2, recorded meanwhile, has opened the breaker
C27_Witness ==
    /\ pc[1] = "running"
    /\ admit[1] = CLOSED
    /\ pc[2] = "idle"
    /\ result[2] = "error"
    /\ calls = 2
    /\ cb.state = OPEN

\* C31: under any interleaving of concurrent calls, state = CLOSED implies
\* failure_count < failure_threshold.
C31_ClosedBelowThreshold ==
    cb.state = CLOSED => cb.failure_count < cb.failure_threshold

\* two calls are suspended in their functions while the breaker is CLOSED one
\* failure short of its threshold
C31_Witness ==
    /\ cb.state = CLOSED
    /\ cb.failure_threshold = 3
    /\ cb.failure_count = 2
    /\ \A c \in Callers : pc[c] = "running"

\* C36: the completion of a call admitted before the breaker opened does not
\* change an OPEN breaker: when its success or failure is recorded in OPEN,
\* failure_count and last_failure_time keep their values.
C36_LateCompletionKeepsOpen ==
    [][\A c \in Callers :
          (/\ cb.state = OPEN
           /\ SuccessRecorded(c) \/ FailureRecorded(c))
            => /\ cb'.failure_count = cb.failure_count
               /\ cb'.last_failure_time = cb.last_failure_time]_vars

====
